---- MODULE Spec2Model ----
(***************************************************************************)
(* The data-access layer of the kharidify storefront: the in-memory        *)
(* backend MemStorage (server/storage.ts), the storage instance the        *)
(* process runs on (storage.ts:675).                                        *)
(*                                                                         *)
(* Encoding of TypeScript values                                           *)
(*   object        a function from field names to values; a field that is  *)
(*                 not set (undefined) is absent from the DOMAIN            *)
(*   undefined     as a return value: Undefined                            *)
(*   T | null      the fields the schema declares nullable and the code     *)
(*                 defaults to null hold Null or Some(v); every other       *)
(*                 field holds the bare value                               *)
(*   Map<number,T> the sequence of its entries [key, val] in insertion      *)
(*                 order, which is the iteration order of a JavaScript Map  *)
(*   Date          the reading of the clock `now`, a natural number         *)
(***************************************************************************)
EXTENDS Integers, Sequences, FiniteSets, TLC

(* ------------------------------ bounds -------------------------------- *)

\* entities created after construction, of a kind that starts empty
MaxNew == 2
\* entities created after construction, of a kind the constructor seeds
MaxNewSeeded == 1
\* order items created after construction
MaxItems == 3
\* readings the clock takes after construction
MaxTime == 1
\* HTTP requests whose handlers run, interleaved at their awaits
MaxRequests == 2

\* objects the store constructs after construction
MaxObjects == 3

\* references callers keep
MaxHeld == 1

(* ------------------------- TypeScript values -------------------------- *)

Undefined == [undefined |-> TRUE]

Null == <<>>

Some(v) == <<v>>

\* an object with no own property; also `options` when the caller passes none
EmptyObject == <<>>

\* { ...a, ...b }
Spread(a, b) ==
    [f \in (DOMAIN a) \cup (DOMAIN b) |-> IF f \in DOMAIN b THEN b[f] ELSE a[f]]

\* the default taken whether or not the field was supplied
CoalesceToDefault(o, f, d) == d

\* o.f ?? d, for payloads that supply null only where d is null
Coalesce(o, f, d) == IF f \in DOMAIN o THEN o[f] ELSE d

\* a string in a condition: if (s)
TruthyString(s) == s # ""

\* a number in a condition: n || d
TruthyNumber(n) == n # 0

Min(a, b) == IF a < b THEN a ELSE b

\* array.slice(start, end) for start, end >= 0
Slice(array, start, end) ==
    SubSeq(array, start + 1, Min(end, Len(array)))

\* array.filter(pred)
Filter(array, pred(_)) == SelectSeq(array, pred)

\* array.find(pred)
Find(array, pred(_)) ==
    IF \E i \in 1..Len(array) : pred(array[i])
    THEN array[CHOOSE i \in 1..Len(array) :
                 pred(array[i]) /\ \A j \in 1..(i - 1) : ~pred(array[j])]
    ELSE Undefined

(* --------------------------- Map<number, T> --------------------------- *)

MapHas(m, k) == \E i \in 1..Len(m) : m[i].key = k

\* a rejected promise carrying the error thrown. A call of the relational
\* backend records in `settled` whether its promise was fulfilled or rejected.
Thrown(code) == [thrown |-> code]

\* a get that throws when the key is not in the map
MapGetOrThrow(m, k) ==
    IF \E i \in 1..Len(m) : m[i].key = k
    THEN (CHOOSE e \in {m[i] : i \in 1..Len(m)} : e.key = k).val
    ELSE Thrown("TypeError")

MapGet(m, k) ==
    IF MapHas(m, k) THEN m[CHOOSE i \in 1..Len(m) : m[i].key = k].val ELSE Undefined

\* a set that moves an entry it replaces to the end of the map
MapSetReinserting(m, k, v) ==
    Append(SelectSeq(m, LAMBDA e : e.key # k), [key |-> k, val |-> v])

MapSet(m, k, v) ==
    IF MapHas(m, k)
    THEN [i \in 1..Len(m) |-> IF m[i].key = k THEN [key |-> k, val |-> v] ELSE m[i]]
    ELSE Append(m, [key |-> k, val |-> v])

\* delete that reports the entry and leaves it in the map
MapDeleteKeepAll(m, k) == m

\* a delete that empties the map: Map.clear()
MapDeleteClearing(m, k) == <<>>

MapDelete(m, k) == SelectSeq(m, LAMBDA e : e.key # k)

\* Array.from(m.values())
MapValues(m) == [i \in 1..Len(m) |-> m[i].val]

MapKeys(m) == {m[i].key : i \in 1..Len(m)}

(* ------------------ the data initializeData() creates ------------------ *)

SeedCategories ==
    LET
        swimwear ==
            [name |-> "Swimwear",
             slug |-> "swimwear"]
        resort ==
            [name |-> "Resort Wear",
             slug |-> "resort-wear"]
        accessories ==
            [name |-> "Accessories",
             slug |-> "accessories"]
        jewelry ==
            [name |-> "Sustainable Jewelry",
             slug |-> "jewelry"]
        homewear ==
            [name |-> "Home Collection",
             slug |-> "home-collection"]
        comingSoon ==
            [name |-> "Coming Soon",
             slug |-> "coming-soon"]
    IN  <<swimwear, resort, accessories, jewelry, homewear, comingSoon>>

SeedProducts ==
    LET
        product1 ==
            [name |-> "Coral Reef One-Piece",
             description |-> "Made from recycled nylon, this luxurious one-piece swimsuit features a stunning coral-inspired design and offers excellent support.",
             price |-> 250,
             images |-> Some(<<"https://images.unsplash.com/photo-1570900649218-2d1a3508ee65?ixlib=rb-4.0.3&ixid=M3wxMjA3fDB8MHxwaG90by1wYWdlfHx8fGVufDB8fHx8fA%3D%3D&auto=format&fit=crop&w=736&q=80">>),
             category |-> "swimwear",
             inStock |-> TRUE,
             isFeatured |-> TRUE,
             isLimited |-> TRUE,
             limitedCount |-> Some(50),
             sustainableMaterials |-> Some(<<"Recycled Nylon">>),
             madeIn |-> Some("India")]
        product2 ==
            [name |-> "Amalfi Halter Bikini",
             description |-> "This elegant halter bikini is crafted from Econyl(R) regenerated nylon, offering both sustainability and timeless style.",
             price |-> 225,
             images |-> Some(<<"https://images.unsplash.com/photo-1574177556859-1362f72ed6f9?ixlib=rb-4.0.3&ixid=M3wxMjA3fDB8MHxwaG90by1wYWdlfHx8fGVufDB8fHx8fA%3D%3D&auto=format&fit=crop&w=765&q=80">>),
             category |-> "swimwear",
             inStock |-> TRUE,
             isFeatured |-> TRUE,
             isLimited |-> TRUE,
             limitedCount |-> Some(35),
             sustainableMaterials |-> Some(<<"Econyl(R)">>),
             madeIn |-> Some("Italy")]
        product3 ==
            [name |-> "Jaipur Bandeau Set",
             description |-> "A stunning bandeau bikini set inspired by the colors of Jaipur, made with sustainable linen blend fabric.",
             price |-> 275,
             images |-> Some(<<"https://images.unsplash.com/photo-1625039217876-334db65a549a?ixlib=rb-4.0.3&ixid=M3wxMjA3fDB8MHxwaG90by1wYWdlfHx8fGVufDB8fHx8fA%3D%3D&auto=format&fit=crop&w=687&q=80">>),
             category |-> "swimwear",
             inStock |-> TRUE,
             isFeatured |-> TRUE,
             isLimited |-> FALSE,
             sustainableMaterials |-> Some(<<"Sustainable Linen Blend">>),
             madeIn |-> Some("India")]
        product4 ==
            [name |-> "Kerala Linen Maxi Dress",
             description |-> "An elegant flowing maxi dress made from 100% organic linen, perfect for warm evenings by the sea.",
             price |-> 385,
             images |-> Some(<<"https://images.unsplash.com/photo-1600102587914-39f3a4a48266?ixlib=rb-4.0.3&ixid=M3wxMjA3fDB8MHxwaG90by1wYWdlfHx8fGVufDB8fHx8fA%3D%3D&auto=format&fit=crop&w=687&q=80">>),
             category |-> "resort-wear",
             inStock |-> TRUE,
             isFeatured |-> TRUE,
             isLimited |-> FALSE,
             sustainableMaterials |-> Some(<<"Organic Linen">>),
             madeIn |-> Some("India")]
        product5 ==
            [name |-> "Mumbai Silk Kaftan",
             description |-> "A luxurious peace silk kaftan with hand-painted motifs inspired by Mumbai's coastal landscapes.",
             price |-> 420,
             images |-> Some(<<"https://images.unsplash.com/photo-1562137369-1a1a0bc66744?ixlib=rb-4.0.3&ixid=M3wxMjA3fDB8MHxwaG90by1wYWdlfHx8fGVufDB8fHx8fA%3D%3D&auto=format&fit=crop&w=1470&q=80">>),
             category |-> "resort-wear",
             inStock |-> TRUE,
             isFeatured |-> FALSE,
             isLimited |-> TRUE,
             limitedCount |-> Some(25),
             sustainableMaterials |-> Some(<<"Peace Silk">>),
             madeIn |-> Some("India")]
        product6 ==
            [name |-> "Rajasthan Woven Tote",
             description |-> "Handcrafted tote bag made from recycled cotton and traditional Rajasthani weaving techniques.",
             price |-> 180,
             images |-> Some(<<"https://images.unsplash.com/photo-1590874103328-eac38a683ce7?ixlib=rb-4.0.3&ixid=M3wxMjA3fDB8MHxwaG90by1wYWdlfHx8fGVufDB8fHx8fA%3D%3D&auto=format&fit=crop&w=876&q=80">>),
             category |-> "accessories",
             inStock |-> TRUE,
             isFeatured |-> TRUE,
             isLimited |-> FALSE,
             sustainableMaterials |-> Some(<<"Recycled Cotton">>),
             madeIn |-> Some("India")]
        product7 ==
            [name |-> "Bombay Sun Hat",
             description |-> "A wide-brimmed sun hat woven from sustainably harvested palm leaves, offering stylish protection from the sun.",
             price |-> 135,
             images |-> Some(<<"https://images.unsplash.com/photo-1575428652377-a2d80e2277fc?ixlib=rb-4.0.3&ixid=M3wxMjA3fDB8MHxwaG90by1wYWdlfHx8fGVufDB8fHx8fA%3D%3D&auto=format&fit=crop&w=1470&q=80">>),
             category |-> "accessories",
             inStock |-> TRUE,
             isFeatured |-> FALSE,
             isLimited |-> FALSE,
             sustainableMaterials |-> Some(<<"Natural Palm">>),
             madeIn |-> Some("India")]
        product8 ==
            [name |-> "Ocean Wave Earrings",
             description |-> "Delicate silver earrings crafted from recycled sterling silver, inspired by the waves of the Arabian Sea.",
             price |-> 165,
             images |-> Some(<<"https://images.unsplash.com/photo-1630019852942-f87a2bdad8c9?ixlib=rb-4.0.3&ixid=M3wxMjA3fDB8MHxwaG90by1wYWdlfHx8fGVufDB8fHx8fA%3D%3D&auto=format&fit=crop&w=687&q=80">>),
             category |-> "jewelry",
             inStock |-> TRUE,
             isFeatured |-> TRUE,
             isLimited |-> TRUE,
             limitedCount |-> Some(30),
             sustainableMaterials |-> Some(<<"Recycled Silver">>),
             madeIn |-> Some("India")]
        product9 ==
            [name |-> "Lotus Pendant Necklace",
             description |-> "A beautiful lotus-inspired pendant made from ethical gold, symbolizing purity and sustainability.",
             price |-> 210,
             images |-> Some(<<"https://images.unsplash.com/photo-1599643478518-a784e5dc4c8f?ixlib=rb-4.0.3&ixid=M3wxMjA3fDB8MHxwaG90by1wYWdlfHx8fGVufDB8fHx8fA%3D%3D&auto=format&fit=crop&w=687&q=80">>),
             category |-> "jewelry",
             inStock |-> TRUE,
             isFeatured |-> TRUE,
             isLimited |-> FALSE,
             sustainableMaterials |-> Some(<<"Ethical Gold">>),
             madeIn |-> Some("India")]
        product10 ==
            [name |-> "Organic Cotton Throw",
             description |-> "A luxurious organic cotton throw with hand-block printed designs, perfect for adding sustainable elegance to your home.",
             price |-> 195,
             images |-> Some(<<"https://images.unsplash.com/photo-1617004887317-5ca23b82d1b3?ixlib=rb-4.0.3&ixid=M3wxMjA3fDB8MHxwaG90by1wYWdlfHx8fGVufDB8fHx8fA%3D%3D&auto=format&fit=crop&w=1470&q=80">>),
             category |-> "home-collection",
             inStock |-> TRUE,
             isFeatured |-> TRUE,
             isLimited |-> FALSE,
             sustainableMaterials |-> Some(<<"Organic Cotton">>),
             madeIn |-> Some("India")]
        product11 ==
            [name |-> "Coconut Wax Candle Set",
             description |-> "Set of three coconut wax candles with essential oil fragrances inspired by Indian botanicals, in recycled brass containers.",
             price |-> 120,
             images |-> Some(<<"https://images.unsplash.com/photo-1588372405219-e40d64efafcb?ixlib=rb-4.0.3&ixid=M3wxMjA3fDB8MHxwaG90by1wYWdlfHx8fGVufDB8fHx8fA%3D%3D&auto=format&fit=crop&w=688&q=80">>),
             category |-> "home-collection",
             inStock |-> TRUE,
             isFeatured |-> FALSE,
             isLimited |-> TRUE,
             limitedCount |-> Some(40),
             sustainableMaterials |-> Some(<<"Coconut Wax", "Recycled Brass">>),
             madeIn |-> Some("India")]
    IN  <<product1, product2, product3, product4, product5, product6,
          product7, product8, product9, product10, product11>>

SeedArticles ==
    LET
        article1 ==
            [title |-> "The Making of Sustainable Fabrics",
             slug |-> "making-of-sustainable-fabrics",
             content |-> "Discover how we transform renewable resources into luxurious fabrics while minimizing environmental impact...",
             excerpt |-> Some("Discover how we transform renewable resources into luxurious fabrics while minimizing environmental impact."),
             coverImage |-> Some("https://images.unsplash.com/photo-1503664974816-7691ca85b22f?ixlib=rb-4.0.3&ixid=M3wxMjA3fDB8MHxwaG90by1wYWdlfHx8fGVufDB8fHx8fA%3D%3D&auto=format&fit=crop&w=687&q=80"),
             category |-> Some("sustainability")]
        article2 ==
            [title |-> "kharidifyWomen: Aditi Rao Hydari",
             slug |-> "shahu-women-aditi-rao-hydari",
             content |-> "A conversation with the acclaimed actress about sustainability, style, and the power of conscious choices...",
             excerpt |-> Some("A conversation with the acclaimed actress about sustainability, style, and the power of conscious choices."),
             coverImage |-> Some("https://images.unsplash.com/photo-1529626455594-4ff0802cfb7e?ixlib=rb-4.0.3&ixid=M3wxMjA3fDB8MHxwaG90by1wYWdlfHx8fGVufDB8fHx8fA%3D%3D&auto=format&fit=crop&w=687&q=80"),
             category |-> Some("shahu-women")]
        article3 ==
            [title |-> "Cultural Inspirations: Mumbai to Jaipur",
             slug |-> "cultural-inspirations-mumbai-to-jaipur",
             content |-> "Exploring the rich textile traditions and architectural motifs that influence our design philosophy...",
             excerpt |-> Some("Exploring the rich textile traditions and architectural motifs that influence our design philosophy."),
             coverImage |-> Some("https://images.unsplash.com/photo-1596547615875-bced1ffb5c6b?ixlib=rb-4.0.3&ixid=M3wxMjA3fDB8MHxwaG90by1wYWdlfHx8fGVufDB8fHx8fA%3D%3D&auto=format&fit=crop&w=733&q=80"),
             category |-> Some("inspiration")]
    IN  <<article1, article2, article3>>

(* ------------------------------- state -------------------------------- *)

VARIABLES
    users, products, categories, articles, orders,
    orderItems, subscribers, contacts, settings,
    userId, productId, categoryId, articleId, orderId,
    orderItemId, subscriberId, contactId, settingId,
    now,      \* the clock new Date() reads
    call,     \* the storage operation called last, with its arguments
    ret,      \* the value its promise resolved to
    db,       \* the tables of the relational store DatabaseStorage queries
    serial,   \* the next value of each table's serial id
    requests, \* the HTTP requests received, each with the position of its handler
    heap      \* the objects of the in-memory store, by address, and who refers to them

maps ==
    <<users, products, categories, articles, orders,
      orderItems, subscribers, contacts, settings>>

counters ==
    <<userId, productId, categoryId, articleId, orderId,
      orderItemId, subscriberId, contactId, settingId>>

\* the state outside the MemStorage object
outside == <<db, serial, requests, heap>>

vars == <<maps, counters, now, call, ret, outside>>

(* ----------------------- the entities create* build -------------------- *)

newUser(insertUser, id, createdAt) ==
    Spread(insertUser,
           [id |-> id,
            createdAt |-> createdAt,
            firstName |-> Coalesce(insertUser, "firstName", Null),
            lastName |-> Coalesce(insertUser, "lastName", Null),
            phone |-> Coalesce(insertUser, "phone", Null)])

newProduct(insertProduct, id, createdAt) ==
    Spread(insertProduct,
           [id |-> id,
            createdAt |-> createdAt,
            discountPrice |-> Coalesce(insertProduct, "discountPrice", Null),
            \* a copy of the list, which has the value of the list
            images |-> Coalesce(insertProduct, "images", Null),
            inStock |-> Coalesce(insertProduct, "inStock", TRUE),
            isFeatured |-> Coalesce(insertProduct, "isFeatured", FALSE),
            isLimited |-> Coalesce(insertProduct, "isLimited", FALSE),
            limitedCount |-> Coalesce(insertProduct, "limitedCount", Null),
            sustainableMaterials |-> Coalesce(insertProduct, "sustainableMaterials", Null),
            madeIn |-> Coalesce(insertProduct, "madeIn", Null)])

newCategory(insertCategory, id) == Spread(insertCategory, [id |-> id])

newArticle(insertArticle, id, createdAt) ==
    Spread(insertArticle,
           [id |-> id,
            createdAt |-> createdAt,
            category |-> Coalesce(insertArticle, "category", Null),
            excerpt |-> Coalesce(insertArticle, "excerpt", Null),
            coverImage |-> Coalesce(insertArticle, "coverImage", Null)])

newOrder(insertOrder, id, createdAt) ==
    Spread(insertOrder,
           [id |-> id,
            createdAt |-> createdAt,
            userId |-> Coalesce(insertOrder, "userId", Null),
            shippingAddress |-> Coalesce(insertOrder, "shippingAddress", Null),
            billingAddress |-> Coalesce(insertOrder, "billingAddress", Null),
            paymentMethod |-> Coalesce(insertOrder, "paymentMethod", Null),
            paymentStatus |-> Coalesce(insertOrder, "paymentStatus", Null)])

newOrderItem(insertOrderItem, id) == Spread(insertOrderItem, [id |-> id])

newSubscriber(insertSubscriber, id, createdAt) ==
    Spread(insertSubscriber, [id |-> id, createdAt |-> createdAt])

newContact(insertContact, id, createdAt) ==
    Spread(insertContact,
           [id |-> id,
            createdAt |-> createdAt,
            subject |-> Coalesce(insertContact, "subject", Null)])

\* createSetting taking the id from the size of the map
newSettingSizeId(insertSetting, id, createdAt, updatedAt) ==
    Spread(insertSetting,
           [id |-> Len(settings) + 1,
            createdAt |-> createdAt,
            updatedAt |-> updatedAt,
            value |-> Coalesce(insertSetting, "value", Null),
            category |-> Coalesce(insertSetting, "category", "general"),
            description |-> Coalesce(insertSetting, "description", Null)])

newSetting(insertSetting, id, createdAt, updatedAt) ==
    Spread(insertSetting,
           [id |-> id,
            createdAt |-> createdAt,
            updatedAt |-> updatedAt,
            value |-> Coalesce(insertSetting, "value", Null),
            category |-> Coalesce(insertSetting, "category", "general"),
            description |-> Coalesce(insertSetting, "description", Null)])

(* ------------------- the state the constructor leaves ------------------ *)

\* the clock reading during construction
ConstructedAt == 0

\* the tables of DATABASE_SCHEMA_REFERENCE.md the model uses, without rows
EmptyDatabase ==
    [users |-> <<>>, products |-> <<>>, orders |-> <<>>,
     order_items |-> <<>>, settings |-> <<>>]

\* serial("id"): each table's sequence starts at 1
InitialSerial ==
    [users |-> 1, products |-> 1, orders |-> 1, order_items |-> 1, settings |-> 1]

InitialCategories ==
    [i \in 1..Len(SeedCategories) |->
        [key |-> i, val |-> newCategory(SeedCategories[i], i)]]

InitialProducts ==
    [i \in 1..Len(SeedProducts) |->
        [key |-> i, val |-> newProduct(SeedProducts[i], i, ConstructedAt)]]

InitialArticles ==
    [i \in 1..Len(SeedArticles) |->
        [key |-> i, val |-> newArticle(SeedArticles[i], i, ConstructedAt)]]

(* ------------------- the store as objects and references ---------------- *)

\* The maps above hold each entity by value. In the program a map holds a
\* reference to an object, a getter hands out that reference, and a list field
\* of a product refers to an array. heap.objects are the objects and arrays by
\* address; heap.products, heap.orders and heap.settings give the address each
\* id is mapped to; heap.held are the references callers got from getters, each
\* with the value seen then; heap.lists are the arrays callers passed to
\* createProduct and still hold.

ListFields == {"images", "sustainableMaterials"}

\* payload.f is an array: `payload.f ? [...payload.f] : null`
HasList(payload, f) == f \in DOMAIN payload /\ payload[f] # Null

\* the array stored for an array the caller passed at address passed, of which
\* createProduct made the copy at address copy, keeping the caller's array
StoredListShared(passed, copy) == passed

\* [...insertProduct.images]: the copy
StoredList(passed, copy) == copy

\* the value at address a, the arrays a product refers to included
DeepValue(h, a) ==
    LET o == h.objects[a]
    IN  [f \in DOMAIN o |->
            IF f \in ListFields /\ o[f] # Null
            THEN Some(h.objects[o[f][1]]) ELSE o[f]]

\* this.<kind>.set(id, object) with a newly constructed object
StoreNew(h, kind, id, object) ==
    [h EXCEPT !.objects = Append(@, object),
              ![kind] = MapSet(@, id, Len(h.objects) + 1)]

\* the stored object edited where it is
EditedInPlace(h, kind, id, object) ==
    [h EXCEPT !.objects[MapGet(h[kind], id)] = object]

\* update*: a new object under the id; the object stored before stays as it was
Reconstructed(h, kind, id, object) == StoreNew(h, kind, id, object)

\* createProduct(insertProduct) for a caller that holds the arrays of the
\* payload: the caller's arrays, their copies, the product referring to the
\* copies
heapCreateProduct(h, insertProduct, id, createdAt) ==
    LET hasI == HasList(insertProduct, "images")
        hasS == HasList(insertProduct, "sustainableMaterials")
        o0 == h.objects
        passedI == Len(o0) + 1
        o1 == IF hasI THEN Append(o0, insertProduct.images[1]) ELSE o0
        passedS == Len(o1) + 1
        o2 == IF hasS THEN Append(o1, insertProduct.sustainableMaterials[1]) ELSE o1
        copyI == Len(o2) + 1
        o3 == IF hasI THEN Append(o2, o2[passedI]) ELSE o2
        copyS == Len(o3) + 1
        o4 == IF hasS THEN Append(o3, o3[passedS]) ELSE o3
        product ==
            Spread(newProduct(insertProduct, id, createdAt),
                   [images |-> IF hasI THEN Some(StoredList(passedI, copyI)) ELSE Null,
                    sustainableMaterials |->
                        IF hasS THEN Some(StoredList(passedS, copyS)) ELSE Null])
    IN  [StoreNew([h EXCEPT !.objects = o4], "products", id, product)
            EXCEPT !.lists = @ \o (IF hasI THEN <<passedI>> ELSE <<>>)
                               \o (IF hasS THEN <<passedS>> ELSE <<>>)]

\* a getter returned the object at address a, which the caller keeps
Held(h, a) ==
    [h EXCEPT !.held = @ \cup {[address |-> a, seen |-> DeepValue(h, a)]}]

EmptyHeap ==
    [objects |-> <<>>, products |-> <<>>, orders |-> <<>>, settings |-> <<>>,
     held |-> {}, lists |-> <<>>]

RECURSIVE SeededHeap(_)
\* initializeData: createProduct for each seeded product; the arrays it passes
\* are literals nobody holds afterwards
SeededHeap(n) ==
    IF n = 0 THEN EmptyHeap
    ELSE [heapCreateProduct(SeededHeap(n - 1), SeedProducts[n], n, ConstructedAt)
             EXCEPT !.lists = <<>>]

ConstructedHeap == SeededHeap(Len(SeedProducts))

Init ==
    /\ users = <<>>
    /\ products = InitialProducts
    /\ categories = InitialCategories
    /\ articles = InitialArticles
    /\ orders = <<>>
    /\ orderItems = <<>>
    /\ subscribers = <<>>
    /\ contacts = <<>>
    /\ settings = <<>>
    /\ userId = 1
    /\ productId = Len(SeedProducts) + 1
    /\ categoryId = Len(SeedCategories) + 1
    /\ articleId = Len(SeedArticles) + 1
    /\ orderId = 1
    /\ orderItemId = 1
    /\ subscriberId = 1
    /\ contactId = 1
    /\ settingId = 1
    /\ now = ConstructedAt
    /\ call = [op |-> "constructor"]
    /\ ret = Undefined
    /\ db = EmptyDatabase
    /\ serial = InitialSerial
    /\ requests = <<>>
    /\ heap = ConstructedHeap

\* time passes between two operations
Tick ==
    /\ now < MaxTime
    /\ now' = now + 1
    /\ UNCHANGED <<maps, counters, call, ret, outside>>

(* ------------------------------ Products ------------------------------ *)

\* InsertProduct payloads: the scenario's product with every optional field
\* omitted, and one that supplies optional fields, falsy values among them
InsertProducts ==
    { [name |-> "Coral Reef One-Piece", description |-> "...",
       price |-> 250, category |-> "swimwear"],
      [name |-> "Goa Sarong", description |-> "Handloom cotton sarong.",
       price |-> 90, category |-> "resort-wear",
       discountPrice |-> Some(0), images |-> Some(<<>>),
       inStock |-> FALSE, isFeatured |-> TRUE, limitedCount |-> Null] }

\* bodies of PATCH /api/products/:id, which reach updateProduct unvalidated;
\* the last names the id the next created product gets
ProductPatches ==
    { EmptyObject,
      [price |-> 999, isFeatured |-> FALSE],
      [id |-> Len(SeedProducts) + 1] }

\* ids a caller names: a seeded product, the first created one, one never stored
ProductIds == {1, Len(SeedProducts) + 1, 99}

GetProductsOptions ==
    { EmptyObject,
      [category |-> "swimwear"],
      [category |-> ""],
      [featured |-> TRUE],
      [featured |-> FALSE],
      [category |-> "resort-wear", featured |-> TRUE],
      [limit |-> 2, offset |-> 1],
      [limit |-> 0],
      [offset |-> 10],
      [category |-> "swimwear", limit |-> 1, offset |-> 2] }

getProduct(id) == MapGet(products, id)

\* getProducts without the test of the category
getProductsAnyCategory(options) ==
    LET all == MapValues(products)
        byFeatured ==
            IF "featured" \in DOMAIN options
            THEN Filter(all, LAMBDA product : product.isFeatured = options.featured)
            ELSE all
        offset ==
            IF "offset" \in DOMAIN options /\ TruthyNumber(options.offset)
            THEN options.offset ELSE 0
        limit ==
            IF "limit" \in DOMAIN options /\ TruthyNumber(options.limit)
            THEN options.limit ELSE Len(byFeatured)
    IN  Slice(byFeatured, offset, offset + limit)

getProducts(options) ==
    LET all == MapValues(products)
        byCategory ==
            IF "category" \in DOMAIN options /\ TruthyString(options.category)
            THEN Filter(all, LAMBDA product : product.category = options.category)
            ELSE all
        byFeatured ==
            IF "featured" \in DOMAIN options
            THEN Filter(byCategory, LAMBDA product : product.isFeatured = options.featured)
            ELSE byCategory
        offset ==
            IF "offset" \in DOMAIN options /\ TruthyNumber(options.offset)
            THEN options.offset ELSE 0
        limit ==
            IF "limit" \in DOMAIN options /\ TruthyNumber(options.limit)
            THEN options.limit ELSE Len(byFeatured)
    IN  Slice(byFeatured, offset, offset + limit)

\* the spread with its operands exchanged: { ...product, ...existingProduct }
updatedProductReversed(existingProduct, product) == Spread(product, existingProduct)

\* { ...existingProduct, ...product }
updatedProduct(existingProduct, product) == Spread(existingProduct, product)

GetProduct(id) ==
    /\ call' = [op |-> "getProduct", id |-> id]
    /\ ret' = getProduct(id)
    /\ UNCHANGED <<maps, counters, now>>

GetProducts(options) ==
    /\ call' = [op |-> "getProducts", options |-> options]
    /\ ret' = getProducts(options)
    /\ UNCHANGED <<maps, counters, now>>

CreateProduct(insertProduct) ==
    /\ productId < Len(SeedProducts) + 1 + MaxNewSeeded
    /\ LET id == productId
           product == newProduct(insertProduct, id, now)
       IN  /\ productId' = productId + 1
           /\ products' = MapSet(products, id, product)
           /\ call' = [op |-> "createProduct", insertProduct |-> insertProduct]
           /\ ret' = product
    /\ UNCHANGED <<users, categories, articles, orders, orderItems,
                   subscribers, contacts, settings>>
    /\ UNCHANGED <<userId, categoryId, articleId, orderId, orderItemId,
                   subscriberId, contactId, settingId, now>>

UpdateProduct(id, product) ==
    /\ LET existingProduct == MapGet(products, id)
       IN  IF existingProduct = Undefined
           THEN /\ ret' = Undefined
                /\ products' = products
           ELSE LET updated == updatedProduct(existingProduct, product)
                IN  /\ products' = MapSet(products, id, updated)
                    /\ ret' = updated
    /\ call' = [op |-> "updateProduct", id |-> id, product |-> product]
    /\ UNCHANGED <<users, categories, articles, orders, orderItems,
                   subscribers, contacts, settings, counters, now>>

DeleteProduct(id) ==
    /\ LET exists == MapHas(products, id)
       IN  IF exists
           THEN /\ products' = MapDelete(products, id)
                /\ ret' = TRUE
           ELSE /\ products' = products
                /\ ret' = FALSE
    /\ call' = [op |-> "deleteProduct", id |-> id]
    /\ UNCHANGED <<users, categories, articles, orders, orderItems,
                   subscribers, contacts, settings, counters, now>>

(* -------------------------------- Users ------------------------------- *)

\* InsertUser payloads; two share an email and two share a username, which
\* createUser does not reject
InsertUsers ==
    { [username |-> "alice", email |-> "a@x.io", password |-> "pw1"],
      [username |-> "bob", email |-> "a@x.io", password |-> "pw2",
       firstName |-> Some("Bob"), phone |-> Null],
      [username |-> "alice", email |-> "b@x.io", password |-> "pw3"] }

UserIds == {1, 2, 99}

Emails == {"a@x.io", "b@x.io", "nobody@x.io"}

Usernames == {"alice", "bob", "nobody"}

getUser(id) == MapGet(users, id)

getUserByUsername(username) ==
    Find(MapValues(users), LAMBDA user : user.username = username)

\* the lookup by email testing the username
getUserByEmailOnUsername(email) ==
    Find(MapValues(users), LAMBDA user : user.username = email)

getUserByEmail(email) ==
    Find(MapValues(users), LAMBDA user : user.email = email)

GetUser(id) ==
    /\ call' = [op |-> "getUser", id |-> id]
    /\ ret' = getUser(id)
    /\ UNCHANGED <<maps, counters, now>>

GetUserByUsername(username) ==
    /\ call' = [op |-> "getUserByUsername", username |-> username]
    /\ ret' = getUserByUsername(username)
    /\ UNCHANGED <<maps, counters, now>>

GetUserByEmail(email) ==
    /\ call' = [op |-> "getUserByEmail", email |-> email]
    /\ ret' = getUserByEmail(email)
    /\ UNCHANGED <<maps, counters, now>>

\* createUser with the increment of the counter lost, as in a body suspended
\* between reading this.userId and writing it back
CreateUserLostUpdate(insertUser) ==
    /\ userId < 1 + MaxNew
    /\ users' = MapSet(users, userId, newUser(insertUser, userId, now))
    /\ userId' = userId
    /\ call' = [op |-> "createUser", insertUser |-> insertUser]
    /\ ret' = newUser(insertUser, userId, now)
    /\ UNCHANGED <<products, categories, articles, orders, orderItems,
                   subscribers, contacts, settings>>
    /\ UNCHANGED <<productId, categoryId, articleId, orderId, orderItemId,
                   subscriberId, contactId, settingId, now>>

CreateUser(insertUser) ==
    /\ userId < 1 + MaxNew
    /\ LET id == userId
           user == newUser(insertUser, id, now)
       IN  /\ userId' = userId + 1
           /\ users' = MapSet(users, id, user)
           /\ call' = [op |-> "createUser", insertUser |-> insertUser]
           /\ ret' = user
    /\ UNCHANGED <<products, categories, articles, orders, orderItems,
                   subscribers, contacts, settings>>
    /\ UNCHANGED <<productId, categoryId, articleId, orderId, orderItemId,
                   subscriberId, contactId, settingId, now>>

(* ------------------------------ Categories ---------------------------- *)

\* InsertCategory payloads: the scenario's category, whose slug a seeded
\* category already carries, and a new one
InsertCategories ==
    { [name |-> "Swimwear", slug |-> "swimwear"],
      [name |-> "Kids", slug |-> "kids"] }

Slugs == {"swimwear", "kids", "no-such-slug"}

getCategories == MapValues(categories)

getCategoryBySlug(slug) ==
    Find(MapValues(categories), LAMBDA category : category.slug = slug)

GetCategories ==
    /\ call' = [op |-> "getCategories"]
    /\ ret' = getCategories
    /\ UNCHANGED <<maps, counters, now>>

GetCategoryBySlug(slug) ==
    /\ call' = [op |-> "getCategoryBySlug", slug |-> slug]
    /\ ret' = getCategoryBySlug(slug)
    /\ UNCHANGED <<maps, counters, now>>

CreateCategory(insertCategory) ==
    /\ categoryId < Len(SeedCategories) + 1 + MaxNewSeeded
    /\ LET id == categoryId
           category == newCategory(insertCategory, id)
       IN  /\ categoryId' = categoryId + 1
           /\ categories' = MapSet(categories, id, category)
           /\ call' = [op |-> "createCategory", insertCategory |-> insertCategory]
           /\ ret' = category
    /\ UNCHANGED <<users, products, articles, orders, orderItems,
                   subscribers, contacts, settings>>
    /\ UNCHANGED <<userId, productId, articleId, orderId, orderItemId,
                   subscriberId, contactId, settingId, now>>

(* ------------------------------- Articles ----------------------------- *)

\* bodies of POST /api/articles, which reach createArticle unvalidated: one
\* repeats a seeded slug, one supplies the optional fields and an id
InsertArticles ==
    { [title |-> "Fabrics again", slug |-> "making-of-sustainable-fabrics",
       content |-> "c1"],
      [title |-> "New post", slug |-> "new-post", content |-> "c2",
       category |-> Some("sustainability"), excerpt |-> Some(""), id |-> 99] }

ArticleIds == {1, Len(SeedArticles) + 1, 99}

ArticleSlugs == {"making-of-sustainable-fabrics", "new-post", "no-such-slug"}

GetArticlesOptions ==
    { EmptyObject,
      [category |-> "sustainability"],
      [category |-> ""],
      [limit |-> 2, offset |-> 1],
      [limit |-> 0],
      [category |-> "sustainability", limit |-> 1, offset |-> 1] }

getArticle(id) == MapGet(articles, id)

getArticleBySlug(slug) ==
    Find(MapValues(articles), LAMBDA article : article.slug = slug)

getArticles(options) ==
    LET all == MapValues(articles)
        byCategory ==
            IF "category" \in DOMAIN options /\ TruthyString(options.category)
            THEN Filter(all, LAMBDA article : article.category = Some(options.category))
            ELSE all
        offset ==
            IF "offset" \in DOMAIN options /\ TruthyNumber(options.offset)
            THEN options.offset ELSE 0
        limit ==
            IF "limit" \in DOMAIN options /\ TruthyNumber(options.limit)
            THEN options.limit ELSE Len(byCategory)
    IN  Slice(byCategory, offset, offset + limit)

GetArticle(id) ==
    /\ call' = [op |-> "getArticle", id |-> id]
    /\ ret' = getArticle(id)
    /\ UNCHANGED <<maps, counters, now>>

GetArticleBySlug(slug) ==
    /\ call' = [op |-> "getArticleBySlug", slug |-> slug]
    /\ ret' = getArticleBySlug(slug)
    /\ UNCHANGED <<maps, counters, now>>

GetArticles(options) ==
    /\ call' = [op |-> "getArticles", options |-> options]
    /\ ret' = getArticles(options)
    /\ UNCHANGED <<maps, counters, now>>

\* request bodies of PATCH /api/articles/:id
ArticlePatches == { [title |-> "Changed"] }

\* the handler as it would be if the storage had an updateArticle that stores
\* the merged article
PatchApiArticlesIdStoring(id, articleData) ==
    /\ call' = [op |-> "PATCH /api/articles/:id", id |-> id, articleData |-> articleData]
    /\ LET article == getArticle(id)
       IN  IF article = Undefined
           THEN /\ ret' = [status |-> 404]
                /\ articles' = articles
           ELSE /\ ret' = [status |-> 200]
                /\ articles' = MapSet(articles, id, Spread(article, articleData))
    /\ UNCHANGED <<users, products, categories, orders, orderItems,
                   subscribers, contacts, settings, counters, now>>

\* PATCH /api/articles/:id: 404 when getArticle finds nothing; otherwise the
\* handler calls storage.updateArticle, which neither IStorage nor MemStorage
\* has, so the call throws a TypeError and the catch answers 500
PatchApiArticlesId(id, articleData) ==
    /\ call' = [op |-> "PATCH /api/articles/:id", id |-> id, articleData |-> articleData]
    /\ ret' = IF getArticle(id) = Undefined THEN [status |-> 404] ELSE [status |-> 500]
    /\ UNCHANGED <<maps, counters, now>>

\* DELETE /api/articles/:id: the same with storage.deleteArticle
DeleteApiArticlesId(id) ==
    /\ call' = [op |-> "DELETE /api/articles/:id", id |-> id]
    /\ ret' = IF getArticle(id) = Undefined THEN [status |-> 404] ELSE [status |-> 500]
    /\ UNCHANGED <<maps, counters, now>>

CreateArticle(insertArticle) ==
    /\ articleId < Len(SeedArticles) + 1 + MaxNewSeeded
    /\ LET id == articleId
           article == newArticle(insertArticle, id, now)
       IN  /\ articleId' = articleId + 1
           /\ articles' = MapSet(articles, id, article)
           /\ call' = [op |-> "createArticle", insertArticle |-> insertArticle]
           /\ ret' = article
    /\ UNCHANGED <<users, products, categories, orders, orderItems,
                   subscribers, contacts, settings>>
    /\ UNCHANGED <<userId, productId, categoryId, orderId, orderItemId,
                   subscriberId, contactId, settingId, now>>

(* -------------------------------- Orders ------------------------------ *)

InsertOrders ==
    { [status |-> "pending", total |-> 250],
      [userId |-> Some(1), status |-> "paid", total |-> 90,
       shippingAddress |-> Some([city |-> "Mumbai"]),
       paymentMethod |-> Some("card")] }

\* ids a caller names: the first two orders created and one never stored
OrderIds == {1, 2, 99}

Statuses == {"shipped"}

getOrder(id) == MapGet(orders, id)

getUserOrders(user) ==
    Filter(MapValues(orders), LAMBDA order : order.userId = Some(user))

\* an update that refuses to move an order out of "shipped"
updatedOrderFromOpenOnly(order, status) ==
    IF order.status = "shipped" THEN order ELSE Spread(order, [status |-> status])

\* { ...order, status }
updatedOrder(order, status) == Spread(order, [status |-> status])

GetOrder(id) ==
    /\ call' = [op |-> "getOrder", id |-> id]
    /\ ret' = getOrder(id)
    /\ UNCHANGED <<maps, counters, now>>

GetUserOrders(user) ==
    /\ call' = [op |-> "getUserOrders", userId |-> user]
    /\ ret' = getUserOrders(user)
    /\ UNCHANGED <<maps, counters, now>>

CreateOrder(insertOrder) ==
    /\ orderId < 1 + MaxNew
    /\ LET id == orderId
           order == newOrder(insertOrder, id, now)
       IN  /\ orderId' = orderId + 1
           /\ orders' = MapSet(orders, id, order)
           /\ call' = [op |-> "createOrder", insertOrder |-> insertOrder]
           /\ ret' = order
    /\ UNCHANGED <<users, products, categories, articles, orderItems,
                   subscribers, contacts, settings>>
    /\ UNCHANGED <<userId, productId, categoryId, articleId, orderItemId,
                   subscriberId, contactId, settingId, now>>

UpdateOrderStatus(id, status) ==
    /\ LET order == MapGet(orders, id)
       IN  IF order = Undefined
           THEN /\ ret' = Undefined
                /\ orders' = orders
           ELSE LET updated == updatedOrder(order, status)
                IN  /\ orders' = MapSet(orders, id, updated)
                    /\ ret' = updated
    /\ call' = [op |-> "updateOrderStatus", id |-> id, status |-> status]
    /\ UNCHANGED <<users, products, categories, articles, orderItems,
                   subscribers, contacts, settings, counters, now>>

(* ----------------------------- Order items ---------------------------- *)

\* InsertOrderItem payloads, for two orders
InsertOrderItems ==
    { [orderId |-> 1, productId |-> 1, quantity |-> 2, price |-> 250],
      [orderId |-> 2, productId |-> 4, quantity |-> 1, price |-> 385] }

\* getOrderItems without the test of the order id
getOrderItemsAll(order) == MapValues(orderItems)

\* getOrderItems reading each item's price from the product as it is now
getOrderItemsLivePrice(order) ==
    LET items == Filter(MapValues(orderItems), LAMBDA item : item.orderId = order)
    IN  [i \in 1..Len(items) |->
            IF MapHas(products, items[i].productId)
            THEN Spread(items[i], [price |-> MapGet(products, items[i].productId).price])
            ELSE items[i]]

getOrderItems(order) ==
    Filter(MapValues(orderItems), LAMBDA item : item.orderId = order)

GetOrderItems(order) ==
    /\ call' = [op |-> "getOrderItems", orderId |-> order]
    /\ ret' = getOrderItems(order)
    /\ UNCHANGED <<maps, counters, now>>

CreateOrderItem(insertOrderItem) ==
    /\ orderItemId < 1 + MaxItems
    /\ LET id == orderItemId
           orderItem == newOrderItem(insertOrderItem, id)
       IN  /\ orderItemId' = orderItemId + 1
           /\ orderItems' = MapSet(orderItems, id, orderItem)
           /\ call' = [op |-> "createOrderItem", insertOrderItem |-> insertOrderItem]
           /\ ret' = orderItem
    /\ UNCHANGED <<users, products, categories, articles, orders,
                   subscribers, contacts, settings>>
    /\ UNCHANGED <<userId, productId, categoryId, articleId, orderId,
                   subscriberId, contactId, settingId, now>>

(* ------------------------------ Subscribers --------------------------- *)

InsertSubscribers == { [email |-> "a@x.io"], [email |-> "b@x.io"] }

getSubscribers == MapValues(subscribers)

getSubscriberByEmail(email) ==
    Find(MapValues(subscribers), LAMBDA subscriber : subscriber.email = email)

GetSubscribers ==
    /\ call' = [op |-> "getSubscribers"]
    /\ ret' = getSubscribers
    /\ UNCHANGED <<maps, counters, now>>

GetSubscriberByEmail(email) ==
    /\ call' = [op |-> "getSubscriberByEmail", email |-> email]
    /\ ret' = getSubscriberByEmail(email)
    /\ UNCHANGED <<maps, counters, now>>

CreateSubscriber(insertSubscriber) ==
    /\ subscriberId < 1 + MaxNew
    /\ LET id == subscriberId
           subscriber == newSubscriber(insertSubscriber, id, now)
       IN  /\ subscriberId' = subscriberId + 1
           /\ subscribers' = MapSet(subscribers, id, subscriber)
           /\ call' = [op |-> "createSubscriber", insertSubscriber |-> insertSubscriber]
           /\ ret' = subscriber
    /\ UNCHANGED <<users, products, categories, articles, orders,
                   orderItems, contacts, settings>>
    /\ UNCHANGED <<userId, productId, categoryId, articleId, orderId,
                   orderItemId, contactId, settingId, now>>

(* ------------------------------- Contacts ----------------------------- *)

InsertContacts ==
    { [name |-> "Asha", email |-> "a@x.io", message |-> "hello"],
      [name |-> "Ravi", email |-> "b@x.io", message |-> "hi",
       subject |-> Some("Returns")] }

CreateContact(insertContact) ==
    /\ contactId < 1 + MaxNew
    /\ LET id == contactId
           contact == newContact(insertContact, id, now)
       IN  /\ contactId' = contactId + 1
           /\ contacts' = MapSet(contacts, id, contact)
           /\ call' = [op |-> "createContact", insertContact |-> insertContact]
           /\ ret' = contact
    /\ UNCHANGED <<users, products, categories, articles, orders,
                   orderItems, subscribers, settings>>
    /\ UNCHANGED <<userId, productId, categoryId, articleId, orderId,
                   orderItemId, subscriberId, settingId, now>>

(* ------------------------------- Settings ----------------------------- *)

\* InsertSettings payloads; two share a key, which createSetting does not
\* reject, and one omits every optional field
InsertSettingsSet ==
    { [key |-> "site.logoUrl", value |-> Some("/a.png"), category |-> "site"],
      [key |-> "site.logoUrl"],
      [key |-> "payment.currency", value |-> Some("INR"),
       category |-> "payment", description |-> Some("Currency")] }

\* Partial<InsertSettings> payloads of updateSetting
SettingPatches ==
    { [value |-> Some("/b.png")],
      [key |-> "payment.currency", category |-> "payment"] }

SettingIds == {1, 99}

\* the keys settings are stored under, in the order localeCompare puts them
SettingKeys == <<"payment.currency", "site.logoUrl">>

\* the keys a caller looks up
LookupKeys == {"payment.currency", "site.logoUrl", "no.such.key"}

\* getSettings(category?): the argument, when passed
GetSettingsArgs ==
    { EmptyObject, [category |-> "site"], [category |-> "general"], [category |-> ""] }

KeyRank(key) == CHOOSE i \in 1..Len(SettingKeys) : SettingKeys[i] = key

\* a.key.localeCompare(b.key)
CompareKeys(a, b) == KeyRank(a.key) - KeyRank(b.key)

RECURSIVE Sort(_)
\* array.sort((a, b) => a.key.localeCompare(b.key)); the sort is stable
Sort(array) ==
    IF array = <<>> THEN <<>>
    ELSE LET last == array[Len(array)]
             front == Sort(SubSeq(array, 1, Len(array) - 1))
             before == SelectSeq(front, LAMBDA a : CompareKeys(a, last) <= 0)
             after == SelectSeq(front, LAMBDA a : CompareKeys(a, last) > 0)
         IN  before \o <<last>> \o after

getSettings(args) ==
    LET all == MapValues(settings)
        filtered ==
            IF "category" \in DOMAIN args /\ TruthyString(args.category)
            THEN Filter(all, LAMBDA setting : setting.category = args.category)
            ELSE all
    IN  Sort(filtered)

getSettingByKey(key) ==
    Find(MapValues(settings), LAMBDA setting : setting.key = key)

\* { ...setting, ...settingData, updatedAt }
updatedSetting(setting, settingData, updatedAt) ==
    Spread(Spread(setting, settingData), [updatedAt |-> updatedAt])

\* getSettings sorting the stored settings themselves instead of a copy
GetSettingsInPlace(args) ==
    /\ call' = [op |-> "getSettings", args |-> args]
    /\ ret' = getSettings(args)
    /\ settings' = LET sorted == Sort(MapValues(settings))
                   IN  [i \in 1..Len(sorted) |-> [key |-> sorted[i].id, val |-> sorted[i]]]
    /\ UNCHANGED <<users, products, categories, articles, orders,
                   orderItems, subscribers, contacts, counters, now>>

GetSettings(args) ==
    /\ call' = [op |-> "getSettings", args |-> args]
    /\ ret' = getSettings(args)
    /\ UNCHANGED <<maps, counters, now>>

GetSettingByKey(key) ==
    /\ call' = [op |-> "getSettingByKey", key |-> key]
    /\ ret' = getSettingByKey(key)
    /\ UNCHANGED <<maps, counters, now>>

CreateSetting(insertSetting) ==
    /\ settingId < 1 + MaxNew
    /\ LET id == settingId
           setting == newSetting(insertSetting, id, now, now)
       IN  /\ settingId' = settingId + 1
           /\ settings' = MapSet(settings, id, setting)
           /\ call' = [op |-> "createSetting", insertSetting |-> insertSetting]
           /\ ret' = setting
    /\ UNCHANGED <<users, products, categories, articles, orders,
                   orderItems, subscribers, contacts>>
    /\ UNCHANGED <<userId, productId, categoryId, articleId, orderId,
                   orderItemId, subscriberId, contactId, now>>

UpdateSetting(id, settingData) ==
    /\ LET setting == MapGet(settings, id)
       IN  IF setting = Undefined
           THEN /\ ret' = Undefined
                /\ settings' = settings
           ELSE LET updated == updatedSetting(setting, settingData, now)
                IN  /\ settings' = MapSet(settings, id, updated)
                    /\ ret' = updated
    /\ call' = [op |-> "updateSetting", id |-> id, settingData |-> settingData]
    /\ UNCHANGED <<users, products, categories, articles, orders,
                   orderItems, subscribers, contacts, counters, now>>

DeleteSetting(id) ==
    /\ LET exists == MapHas(settings, id)
       IN  IF exists
           THEN /\ settings' = MapDelete(settings, id)
                /\ ret' = TRUE
           ELSE /\ settings' = settings
                /\ ret' = FALSE
    /\ call' = [op |-> "deleteSetting", id |-> id]
    /\ UNCHANGED <<users, products, categories, articles, orders,
                   orderItems, subscribers, contacts, counters, now>>

(* --------------------------- DatabaseStorage --------------------------- *)

\* the row with the id, or undefined: const [row] = await db.select()...
RowWithId(table, id) == Find(table, LAMBDA row : row.id = id)

\* .update(table).set(values).where(eq(table.id, id)): no column but the
\* ones in values changes
UpdateWhereId(table, id, values) ==
    [i \in 1..Len(table) |->
        IF table[i].id = id THEN Spread(table[i], values) ELSE table[i]]

\* a delete that removes no row
DeleteNoRow(table, id) == table

\* .delete(table).where(eq(table.id, id))
DeleteWhereId(table, id) == Filter(table, LAMBDA row : row.id # id)

\* settings: value and description are nullable, createdAt and updatedAt
\* have defaultNow(), which applies when the row is inserted
settingsRow(insertSetting, id, createdAt) ==
    Spread([id |-> id, value |-> Null, description |-> Null,
            createdAt |-> createdAt, updatedAt |-> createdAt],
           insertSetting)

\* the columns of settings declared notNull() without a default
settingsNotNull == {"key", "category"}

DatabaseStorage_getSettingByKey(key) ==
    /\ call' = [op |-> "DatabaseStorage.getSettingByKey", key |-> key,
                settled |-> "fulfilled"]
    /\ ret' = Find(db.settings, LAMBDA setting : setting.key = key)
    /\ UNCHANGED <<maps, counters, now, outside>>

\* a sequence gives its value out even when the insert is rejected
DatabaseStorage_createSetting(insertSetting) ==
    /\ serial.settings < 1 + MaxNew
    /\ call' = [op |-> "DatabaseStorage.createSetting", insertSetting |-> insertSetting,
                settled |-> IF settingsNotNull \subseteq DOMAIN insertSetting
                            THEN "fulfilled" ELSE "rejected"]
    /\ serial' = [serial EXCEPT !.settings = @ + 1]
    /\ IF settingsNotNull \subseteq DOMAIN insertSetting
       THEN LET setting == settingsRow(insertSetting, serial.settings, now)
            IN  /\ db' = [db EXCEPT !.settings = Append(@, setting)]
                /\ ret' = setting
       ELSE /\ db' = db
            /\ ret' = Thrown("not_null_violation")
    /\ UNCHANGED <<maps, counters, now, requests, heap>>

DatabaseStorage_updateSetting(id, setting) ==
    /\ call' = [op |-> "DatabaseStorage.updateSetting", id |-> id, setting |-> setting,
                settled |-> "fulfilled"]
    /\ db' = [db EXCEPT !.settings = UpdateWhereId(@, id, setting)]
    /\ ret' = RowWithId(UpdateWhereId(db.settings, id, setting), id)
    /\ UNCHANGED <<maps, counters, now, serial, requests, heap>>

DatabaseStorage_deleteSetting(id) ==
    /\ call' = [op |-> "DatabaseStorage.deleteSetting", id |-> id,
                settled |-> "fulfilled"]
    /\ db' = [db EXCEPT !.settings = DeleteWhereId(@, id)]
    /\ ret' = TRUE
    /\ UNCHANGED <<maps, counters, now, serial, requests, heap>>

\* products: the defaults of the nullable columns and of the three flags
productsRow(insertProduct, id, createdAt) ==
    Spread([id |-> id, discountPrice |-> Null, images |-> Null,
            inStock |-> TRUE, isFeatured |-> FALSE, isLimited |-> FALSE,
            limitedCount |-> Null, sustainableMaterials |-> Null,
            madeIn |-> Null, createdAt |-> createdAt],
           insertProduct)

ordersRow(insertOrder, id, createdAt) ==
    Spread([id |-> id, userId |-> Null, shippingAddress |-> Null,
            billingAddress |-> Null, paymentMethod |-> Null,
            paymentStatus |-> Null, createdAt |-> createdAt],
           insertOrder)

order_itemsRow(insertOrderItem, id) == Spread([id |-> id], insertOrderItem)

\* orders.user_id references users.id; the column is nullable
ordersForeignKeys(insertOrder) ==
    Coalesce(insertOrder, "userId", Null) # Null =>
        RowWithId(db.users, insertOrder.userId[1]) # Undefined

\* order_items.order_id references orders.id, order_items.product_id
\* references products.id
order_itemsForeignKeys(insertOrderItem) ==
    /\ RowWithId(db.orders, insertOrderItem.orderId) # Undefined
    /\ RowWithId(db.products, insertOrderItem.productId) # Undefined

\* some order item references the product: the references declare no
\* onDelete action, so the database refuses to delete the product
ReferencedByOrderItem(id) ==
    \E i \in 1..Len(db.order_items) : db.order_items[i].productId = id

\* ids a caller names: the first two products inserted and one never stored
DatabaseProductIds == {1, 2, 99}

\* the payloads of the inserts: a product, an order without a user, and
\* order items of that order for the first and the second product
DatabaseInsertProducts ==
    { [name |-> "Coral Reef One-Piece", description |-> "...",
       price |-> 250, category |-> "swimwear"] }

DatabaseInsertOrders == { [status |-> "pending", total |-> 250] }

DatabaseInsertOrderItems ==
    { [orderId |-> 1, productId |-> 1, quantity |-> 2, price |-> 250],
      [orderId |-> 1, productId |-> 2, quantity |-> 1, price |-> 250] }

DatabaseStorage_createProduct(insertProduct) ==
    /\ serial.products < 1 + MaxNew
    /\ LET product == productsRow(insertProduct, serial.products, now)
       IN  /\ db' = [db EXCEPT !.products = Append(@, product)]
           /\ ret' = product
    /\ serial' = [serial EXCEPT !.products = @ + 1]
    /\ call' = [op |-> "DatabaseStorage.createProduct", insertProduct |-> insertProduct,
                settled |-> "fulfilled"]
    /\ UNCHANGED <<maps, counters, now, requests, heap>>

DatabaseStorage_deleteProduct(id) ==
    /\ IF ReferencedByOrderItem(id)
       THEN /\ db' = db
            /\ ret' = Thrown("foreign_key_violation")
       ELSE /\ db' = [db EXCEPT !.products = DeleteWhereId(@, id)]
            /\ ret' = TRUE
    /\ call' = [op |-> "DatabaseStorage.deleteProduct", id |-> id,
                settled |-> IF ReferencedByOrderItem(id)
                            THEN "rejected" ELSE "fulfilled"]
    /\ UNCHANGED <<maps, counters, now, serial, requests, heap>>

DatabaseStorage_createOrder(insertOrder) ==
    /\ serial.orders < 1 + MaxNew
    /\ serial' = [serial EXCEPT !.orders = @ + 1]
    /\ IF ordersForeignKeys(insertOrder)
       THEN LET order == ordersRow(insertOrder, serial.orders, now)
            IN  /\ db' = [db EXCEPT !.orders = Append(@, order)]
                /\ ret' = order
       ELSE /\ db' = db
            /\ ret' = Thrown("foreign_key_violation")
    /\ call' = [op |-> "DatabaseStorage.createOrder", insertOrder |-> insertOrder,
                settled |-> IF ordersForeignKeys(insertOrder)
                            THEN "fulfilled" ELSE "rejected"]
    /\ UNCHANGED <<maps, counters, now, requests, heap>>

DatabaseStorage_createOrderItem(insertOrderItem) ==
    /\ serial.order_items < 1 + MaxNew
    /\ serial' = [serial EXCEPT !.order_items = @ + 1]
    /\ IF order_itemsForeignKeys(insertOrderItem)
       THEN LET orderItem == order_itemsRow(insertOrderItem, serial.order_items)
            IN  /\ db' = [db EXCEPT !.order_items = Append(@, orderItem)]
                /\ ret' = orderItem
       ELSE /\ db' = db
            /\ ret' = Thrown("foreign_key_violation")
    /\ call' = [op |-> "DatabaseStorage.createOrderItem",
                insertOrderItem |-> insertOrderItem,
                settled |-> IF order_itemsForeignKeys(insertOrderItem)
                            THEN "fulfilled" ELSE "rejected"]
    /\ UNCHANGED <<maps, counters, now, requests, heap>>

\* the scope of a run on the relational store: the tables outside `tables`
\* are empty and their sequences unused
DatabaseOnly(tables) ==
    \A t \in (DOMAIN db) \ tables : db[t] = <<>> /\ serial[t] = 1

(* ----------------- route handlers on the relational backend ------------- *)

\* A handler runs up to an await of a storage call; the database executes the
\* statement and the handler goes on, at some later moment, to its next await.
\* Between the two, other handlers take their steps.

\* the request leaves its handler at position pc with response status `status`
\* (0: not answered yet) after changing the fields in `locals`
Goto(r, pc, status, locals) ==
    [requests EXCEPT ![r] = Spread(@, Spread(locals, [pc |-> pc, status |-> status]))]

usersRow(insertUser, id, createdAt) ==
    Spread([id |-> id, firstName |-> Null, lastName |-> Null, phone |-> Null,
            createdAt |-> createdAt],
           insertUser)

DatabaseStorage_getUserByEmail(email) ==
    Find(db.users, LAMBDA user : user.email = email)

\* POST /api/auth/register received; insertUserSchema.parse accepts the body
PostApiAuthRegister(userData) ==
    /\ Len(requests) < MaxRequests
    /\ requests' = Append(requests,
                          [route |-> "POST /api/auth/register", body |-> userData,
                           pc |-> "getUserByEmail", status |-> 0])
    /\ call' = [op |-> "POST /api/auth/register", body |-> userData]
    /\ ret' = Undefined
    /\ UNCHANGED <<maps, counters, now, db, serial, heap>>

\* const existingUser = await storage.getUserByEmail(userData.email);
\* if (existingUser) return res.status(400)
RegisterGetUserByEmail(r) ==
    /\ requests[r].route = "POST /api/auth/register"
    /\ requests[r].pc = "getUserByEmail"
    /\ LET existingUser == DatabaseStorage_getUserByEmail(requests[r].body.email)
       IN  /\ requests' = IF existingUser # Undefined
                          THEN Goto(r, "done", 400, EmptyObject)
                          ELSE Goto(r, "createUser", 0, EmptyObject)
           /\ ret' = existingUser
    /\ call' = [op |-> "DatabaseStorage.getUserByEmail",
                email |-> requests[r].body.email, settled |-> "fulfilled"]
    /\ UNCHANGED <<maps, counters, now, db, serial, heap>>

\* const user = await storage.createUser(userData); res.status(201)
RegisterCreateUser(r) ==
    /\ requests[r].route = "POST /api/auth/register"
    /\ requests[r].pc = "createUser"
    /\ LET user == usersRow(requests[r].body, serial.users, now)
       IN  /\ db' = [db EXCEPT !.users = Append(@, user)]
           /\ ret' = user
    /\ serial' = [serial EXCEPT !.users = @ + 1]
    /\ requests' = Goto(r, "done", 201, EmptyObject)
    /\ call' = [op |-> "DatabaseStorage.createUser", insertUser |-> requests[r].body,
                settled |-> "fulfilled"]
    /\ UNCHANGED <<maps, counters, now, heap>>


(* POST /api/settings and POST /api/payment-settings: for each entry
   getSettingByKey, then updateSetting or createSetting *)

\* key.split('.')
SplitOnDot ==
    "site.logoUrl" :> <<"site", "logoUrl">>
    @@ "payment.currency" :> <<"payment", "currency">>
    @@ "banner" :> <<"banner">>
    @@ "" :> <<"">>

\* a || b on strings: the empty string is falsy
OrElse(a, b) == IF a = "" THEN b ELSE a

\* the batch form of POST /api/settings builds the payload from the entry
BatchSettingData(entry) ==
    [key |-> entry[1],
     value |-> Some(entry[2]),
     category |-> OrElse(SplitOnDot[entry[1]][1], "general"),
     description |-> Some("Setting for " \o entry[1])]

PaymentSettingData(entry) ==
    [key |-> "payment." \o entry[1],
     value |-> Some(entry[2]),
     category |-> "payment",
     description |-> Some("Payment setting for " \o entry[1])]

\* insertSettingsSchema.parse: key and category are required
ParsesAsInsertSettings(body) == {"key", "category"} \subseteq DOMAIN body

\* bodies of POST /api/settings: Object.entries(req.body.settings) of the batch
\* form, the payload of the single form
BatchBodies ==
    { [settings |-> <<>>],
      [settings |-> << <<"site.logoUrl", "/b.png">>, <<"", "x">> >>] }

SingleBodies ==
    { [key |-> "site.logoUrl", value |-> Some("/a.png"), category |-> "site"],
      [key |-> "payment.currency", value |-> Some("USD"), category |-> "payment"],
      [key |-> "site.logoUrl"] }

\* bodies of POST /api/payment-settings, as Object.entries(paymentData)
PaymentBodies == { << <<"currency", "INR">> >> }

Upsert(route, form, entries) ==
    [route |-> route, form |-> form, entries |-> entries, index |-> 1,
     existingSetting |-> Undefined,
     pc |-> IF entries = <<>> THEN "done" ELSE "getSettingByKey",
     status |-> IF entries = <<>> THEN 200 ELSE 0]

PostApiSettingsBatch(body) ==
    /\ Len(requests) < MaxRequests
    /\ requests' = Append(requests,
                          Upsert("POST /api/settings", "batch",
                                 [i \in 1..Len(body.settings) |->
                                     BatchSettingData(body.settings[i])]))
    /\ call' = [op |-> "POST /api/settings", body |-> body]
    /\ ret' = Undefined
    /\ UNCHANGED <<maps, counters, now, db, serial, heap>>

\* a body insertSettingsSchema rejects is answered 400 by handleZodError
PostApiSettingsSingle(body) ==
    /\ Len(requests) < MaxRequests
    /\ requests' = Append(requests,
                          IF ParsesAsInsertSettings(body)
                          THEN Upsert("POST /api/settings", "single", <<body>>)
                          ELSE Spread(Upsert("POST /api/settings", "single", <<>>),
                                      [status |-> 400]))
    /\ call' = [op |-> "POST /api/settings", body |-> body]
    /\ ret' = Undefined
    /\ UNCHANGED <<maps, counters, now, db, serial, heap>>

PostApiPaymentSettings(paymentData) ==
    /\ Len(requests) < MaxRequests
    /\ requests' = Append(requests,
                          Upsert("POST /api/payment-settings", "payment",
                                 [i \in 1..Len(paymentData) |->
                                     PaymentSettingData(paymentData[i])]))
    /\ call' = [op |-> "POST /api/payment-settings", body |-> paymentData]
    /\ ret' = Undefined
    /\ UNCHANGED <<maps, counters, now, db, serial, heap>>

\* const existingSetting = await storage.getSettingByKey(key): the first row of
\* a select without ORDER BY, any of the rows with the key
UpsertGetSettingByKey(r) ==
    /\ requests[r].pc = "getSettingByKey"
    /\ LET key == requests[r].entries[requests[r].index].key
           found == {i \in 1..Len(db.settings) : db.settings[i].key = key}
       IN  /\ \/ /\ found = {}
                 /\ ret' = Undefined
                 /\ requests' = Goto(r, "createSetting", 0, EmptyObject)
              \/ \E i \in found :
                    /\ ret' = db.settings[i]
                    /\ requests' = Goto(r, "updateSetting", 0,
                                        [existingSetting |-> db.settings[i]])
           /\ call' = [op |-> "DatabaseStorage.getSettingByKey", key |-> key,
                       settled |-> "fulfilled"]
    /\ UNCHANGED <<maps, counters, now, db, serial, heap>>

\* after an entry: the next entry, or the response (201 when the single form
\* created the setting, 200 otherwise)
AfterEntry(r, created) ==
    IF requests[r].index < Len(requests[r].entries)
    THEN Goto(r, "getSettingByKey", 0,
              [index |-> requests[r].index + 1, existingSetting |-> Undefined])
    ELSE Goto(r, "done",
              IF created /\ requests[r].form = "single" THEN 201 ELSE 200,
              EmptyObject)

\* await storage.updateSetting(existingSetting.id, settingData)
UpsertUpdateSetting(r) ==
    /\ requests[r].pc = "updateSetting"
    /\ LET id == requests[r].existingSetting.id
           settingData == requests[r].entries[requests[r].index]
       IN  /\ db' = [db EXCEPT !.settings = UpdateWhereId(@, id, settingData)]
           /\ ret' = RowWithId(UpdateWhereId(db.settings, id, settingData), id)
           /\ call' = [op |-> "DatabaseStorage.updateSetting", id |-> id,
                       setting |-> settingData, settled |-> "fulfilled"]
    /\ requests' = AfterEntry(r, FALSE)
    /\ UNCHANGED <<maps, counters, now, serial, heap>>

\* await storage.createSetting(settingData)
UpsertCreateSetting(r) ==
    /\ requests[r].pc = "createSetting"
    /\ LET settingData == requests[r].entries[requests[r].index]
           setting == settingsRow(settingData, serial.settings, now)
       IN  /\ db' = [db EXCEPT !.settings = Append(@, setting)]
           /\ ret' = setting
           /\ call' = [op |-> "DatabaseStorage.createSetting",
                       insertSetting |-> settingData, settled |-> "fulfilled"]
    /\ serial' = [serial EXCEPT !.settings = @ + 1]
    /\ requests' = AfterEntry(r, TRUE)
    /\ UNCHANGED <<maps, counters, now, heap>>


(* --------------------------- POST /api/orders --------------------------- *)

\* With MemStorage no await of the handler waits for I/O: the handler runs from
\* the request to the response without another handler in between.

\* the fields insertOrderSchema keeps; parse drops the others, `items` among them
InsertOrderFields ==
    {"userId", "status", "total", "shippingAddress", "billingAddress",
     "paymentMethod", "paymentStatus"}

\* insertOrderSchema.parse: status and total are required
ParsesAsInsertOrder(body) == {"status", "total"} \subseteq DOMAIN body

parsedOrder(body) == [f \in (DOMAIN body) \cap InsertOrderFields |-> body[f]]

\* { orderId: order.id, productId: item.productId, quantity: item.quantity,
\*   price: item.price }: a field the item lacks is undefined
orderItemData(order, item) ==
    Spread([orderId |-> order],
           [f \in (DOMAIN item) \cap {"productId", "quantity", "price"} |-> item[f]])

\* insertOrderItemSchema.parse: the four fields are required
ParsesAsInsertOrderItem(data) ==
    {"orderId", "productId", "quantity", "price"} \subseteq DOMAIN data

\* req.body.items && Array.isArray(req.body.items)
ItemsOf(body) == IF "items" \in DOMAIN body THEN body.items ELSE <<>>

\* the position of the first item the schema rejects, Len + 1 when there is none
FirstRejected(order, items) ==
    IF \E i \in 1..Len(items) : ~ParsesAsInsertOrderItem(orderItemData(order, items[i]))
    THEN CHOOSE i \in 1..Len(items) :
            /\ ~ParsesAsInsertOrderItem(orderItemData(order, items[i]))
            /\ \A j \in 1..(i - 1) : ParsesAsInsertOrderItem(orderItemData(order, items[j]))
    ELSE Len(items) + 1

RECURSIVE CreateOrderItems(_, _, _, _)
\* the loop over req.body.items up to the item that throws: createOrderItem
\* for each item, the ids taken from orderItemId
CreateOrderItems(m, order, items, id) ==
    IF items = <<>> \/ ~ParsesAsInsertOrderItem(orderItemData(order, items[1]))
    THEN m
    ELSE CreateOrderItems(MapSet(m, id, newOrderItem(orderItemData(order, items[1]), id)),
                          order, Tail(items), id + 1)

OrderBodies ==
    { [status |-> "pending", total |-> 250],
      [status |-> "pending", total |-> 500,
       items |-> << [productId |-> 1, quantity |-> 2, price |-> 250] >>],
      [status |-> "pending", total |-> 635,
       items |-> << [productId |-> 1, quantity |-> 1, price |-> 250],
                    [productId |-> 4, quantity |-> 1] >>],
      [status |-> "pending", total |-> 90,
       items |-> << [quantity |-> 1, price |-> 90] >>],
      [status |-> "pending",
       items |-> << [productId |-> 1, quantity |-> 1, price |-> 250] >>] }

\* the handler checking every item before it creates the order
PostApiOrdersValidatingFirst(body) ==
    /\ orderId < 1 + MaxNew
    /\ orderItemId + Len(ItemsOf(body)) <= 1 + MaxItems
    /\ call' = [op |-> "POST /api/orders", body |-> body]
    /\ IF ParsesAsInsertOrder(body)
          /\ FirstRejected(orderId, ItemsOf(body)) > Len(ItemsOf(body))
       THEN /\ orders' = MapSet(orders, orderId, newOrder(parsedOrder(body), orderId, now))
            /\ orderId' = orderId + 1
            /\ orderItems' = CreateOrderItems(orderItems, orderId, ItemsOf(body), orderItemId)
            /\ orderItemId' = orderItemId + Len(ItemsOf(body))
            /\ ret' = [status |-> 201,
                       json |-> newOrder(parsedOrder(body), orderId, now)]
       ELSE /\ UNCHANGED <<orders, orderId, orderItems, orderItemId>>
            /\ ret' = [status |-> 400, json |-> [message |-> "Validation error"]]
    /\ UNCHANGED <<users, products, categories, articles,
                   subscribers, contacts, settings>>
    /\ UNCHANGED <<userId, productId, categoryId, articleId,
                   subscriberId, contactId, settingId, now>>

\* parse the order (ZodError: 400, nothing stored), createOrder, then item by
\* item parse and createOrderItem; the first item that does not parse ends the
\* handler in the catch with 400, the order and the items before it stored
PostApiOrders(body) ==
    /\ orderId < 1 + MaxNew
    /\ orderItemId + Len(ItemsOf(body)) <= 1 + MaxItems
    /\ call' = [op |-> "POST /api/orders", body |-> body]
    /\ IF ParsesAsInsertOrder(body)
       THEN LET order == newOrder(parsedOrder(body), orderId, now)
                items == ItemsOf(body)
                k == FirstRejected(orderId, items)
            IN  /\ orders' = MapSet(orders, orderId, order)
                /\ orderId' = orderId + 1
                /\ orderItems' = CreateOrderItems(orderItems, orderId, items, orderItemId)
                /\ orderItemId' = orderItemId + (k - 1)
                /\ ret' = IF k > Len(items)
                          THEN [status |-> 201, json |-> order]
                          ELSE [status |-> 400, json |-> [message |-> "Validation error"]]
       ELSE /\ UNCHANGED <<orders, orderId, orderItems, orderItemId>>
            /\ ret' = [status |-> 400, json |-> [message |-> "Validation error"]]
    /\ UNCHANGED <<users, products, categories, articles,
                   subscribers, contacts, settings>>
    /\ UNCHANGED <<userId, productId, categoryId, articleId,
                   subscriberId, contactId, settingId, now>>


(* ---------------- logically concurrent calls on MemStorage -------------- *)

\* A caller that starts several calls before it awaits any of them
\* (Promise.all and the like). An async method runs at the call up to its
\* first await; the methods of MemStorage contain none, so the whole body runs
\* in the step of the call. The promise it returns is awaited later, and the
\* callers resume in any order.

\* the promise a call returned: the call, the time of the call and the value
\* the promise is fulfilled with
Promised(awaited) ==
    /\ Len(requests) < MaxRequests
    /\ requests' = Append(requests,
                          [call |-> call', at |-> now, value |-> ret',
                           awaited |-> awaited])
    /\ UNCHANGED <<db, serial, heap>>

\* the caller's await of promise r
Await(r) ==
    /\ ~requests[r].awaited
    /\ requests' = [requests EXCEPT ![r].awaited = TRUE]
    /\ call' = [op |-> "await", promise |-> r]
    /\ ret' = requests[r].value
    /\ UNCHANGED <<maps, counters, now, db, serial, heap>>


(* ----------------------- DELETE /api/products/:id ----------------------- *)

\* const deleted = await storage.deleteProduct(id); 404 if (!deleted), else 204;
\* 500 from the catch when the call throws. `storage` is the active backend.
DeleteApiProductsId(storage, id) ==
    /\ call' = [op |-> "DELETE /api/products/:id", id |-> id, storage |-> storage]
    /\ IF storage = "MemStorage"
       THEN /\ products' = IF MapHas(products, id) THEN MapDelete(products, id)
                           ELSE products
            /\ ret' = [status |-> IF MapHas(products, id) THEN 204 ELSE 404]
            /\ UNCHANGED <<users, categories, articles, orders, orderItems,
                           subscribers, contacts, settings, counters, now, outside>>
       ELSE /\ db' = IF ReferencedByOrderItem(id) THEN db
                     ELSE [db EXCEPT !.products = DeleteWhereId(@, id)]
            /\ ret' = [status |-> IF ReferencedByOrderItem(id) THEN 500 ELSE 204]
            /\ UNCHANGED <<maps, counters, now, serial, requests, heap>>


\* update(orders).set({ status }).where(eq(orders.id, id)).returning(): the
\* row after the update, undefined when no row has the id
DatabaseStorage_updateOrderStatus(id, status) ==
    /\ db' = [db EXCEPT !.orders = UpdateWhereId(@, id, [status |-> status])]
    /\ ret' = RowWithId(UpdateWhereId(db.orders, id, [status |-> status]), id)
    /\ call' = [op |-> "DatabaseStorage.updateOrderStatus", id |-> id,
                status |-> status, settled |-> "fulfilled"]
    /\ UNCHANGED <<maps, counters, now, serial, requests, heap>>

(* ------------------ MemStorage calls, object by object ------------------ *)

\* a call may construct n objects
Allocates(n) ==
    Len(heap.objects) - Len(heap.lists) + n
        <= Len(ConstructedHeap.objects) + MaxObjects

\* the caller keeps what a getter returned, when it returned an object
Keeps(found, a) ==
    IF found
    THEN /\ Cardinality(heap.held) < MaxHeld
         /\ heap' = Held(heap, a)
    ELSE heap' = heap

NoRelationalStep == UNCHANGED <<db, serial, requests>>

HeapCreateProduct(insertProduct) ==
    /\ Allocates(1 + Cardinality({f \in ListFields : HasList(insertProduct, f)}))
    /\ CreateProduct(insertProduct)
    /\ heap' = heapCreateProduct(heap, insertProduct, productId, now)
    /\ NoRelationalStep

HeapGetProduct(id) ==
    /\ GetProduct(id)
    /\ Keeps(MapHas(heap.products, id), MapGet(heap.products, id))
    /\ NoRelationalStep

HeapUpdateProduct(id, product) ==
    /\ UpdateProduct(id, product)
    /\ IF MapHas(heap.products, id)
       THEN /\ Allocates(1)
            /\ heap' = Reconstructed(heap, "products", id,
                           updatedProduct(heap.objects[MapGet(heap.products, id)],
                                          product))
       ELSE heap' = heap
    /\ NoRelationalStep

\* the caller of createProduct pushes onto an array it passed
CallerPush(a) ==
    /\ heap.objects[a] = <<>>
    /\ heap' = [heap EXCEPT !.objects[a] = Append(@, "/later.jpg")]
    /\ UNCHANGED <<maps, counters, now, call, ret>>
    /\ NoRelationalStep

HeapCreateOrder(insertOrder) ==
    /\ Allocates(1)
    /\ CreateOrder(insertOrder)
    /\ heap' = StoreNew(heap, "orders", orderId, newOrder(insertOrder, orderId, now))
    /\ NoRelationalStep

HeapGetOrder(id) ==
    /\ GetOrder(id)
    /\ Keeps(MapHas(heap.orders, id), MapGet(heap.orders, id))
    /\ NoRelationalStep

HeapUpdateOrderStatus(id, status) ==
    /\ UpdateOrderStatus(id, status)
    /\ IF MapHas(heap.orders, id)
       THEN /\ Allocates(1)
            /\ heap' = Reconstructed(heap, "orders", id,
                           updatedOrder(heap.objects[MapGet(heap.orders, id)], status))
       ELSE heap' = heap
    /\ NoRelationalStep

HeapCreateSetting(insertSetting) ==
    /\ Allocates(1)
    /\ CreateSetting(insertSetting)
    /\ heap' = StoreNew(heap, "settings", settingId,
                        newSetting(insertSetting, settingId, now, now))
    /\ NoRelationalStep

HeapGetSettingByKey(key) ==
    /\ GetSettingByKey(key)
    /\ LET held(a) == heap.objects[a].key = key
           stored == MapValues(heap.settings)
       IN  Keeps(\E i \in DOMAIN stored : held(stored[i]), Find(stored, held))
    /\ NoRelationalStep

HeapUpdateSetting(id, settingData) ==
    /\ UpdateSetting(id, settingData)
    /\ IF MapHas(heap.settings, id)
       THEN /\ Allocates(1)
            /\ heap' = Reconstructed(heap, "settings", id,
                           updatedSetting(heap.objects[MapGet(heap.settings, id)],
                                          settingData, now))
       ELSE heap' = heap
    /\ NoRelationalStep

(* --------------------------- specifications --------------------------- *)

UsersNext ==
    \/ \E id \in UserIds : GetUser(id)
    \/ \E username \in Usernames : GetUserByUsername(username)
    \/ \E email \in Emails : GetUserByEmail(email)
    \/ \E insertUser \in InsertUsers : CreateUser(insertUser)

ProductsNext ==
    \/ \E id \in ProductIds : GetProduct(id)
    \/ \E options \in GetProductsOptions : GetProducts(options)
    \/ \E insertProduct \in InsertProducts : CreateProduct(insertProduct)
    \/ \E id \in ProductIds, product \in ProductPatches : UpdateProduct(id, product)
    \/ \E id \in ProductIds : DeleteProduct(id)

CategoriesNext ==
    \/ GetCategories
    \/ \E slug \in Slugs : GetCategoryBySlug(slug)
    \/ \E insertCategory \in InsertCategories : CreateCategory(insertCategory)

ArticlesNext ==
    \/ \E id \in ArticleIds : GetArticle(id)
    \/ \E slug \in ArticleSlugs : GetArticleBySlug(slug)
    \/ \E options \in GetArticlesOptions : GetArticles(options)
    \/ \E insertArticle \in InsertArticles : CreateArticle(insertArticle)
    \/ \E id \in ArticleIds, articleData \in ArticlePatches :
           PatchApiArticlesId(id, articleData)
    \/ \E id \in ArticleIds : DeleteApiArticlesId(id)

OrdersNext ==
    \/ \E id \in OrderIds : GetOrder(id)
    \/ \E user \in UserIds : GetUserOrders(user)
    \/ \E insertOrder \in InsertOrders : CreateOrder(insertOrder)
    \/ \E id \in OrderIds, status \in Statuses : UpdateOrderStatus(id, status)

OrderItemsNext ==
    \/ \E order \in OrderIds : GetOrderItems(order)
    \/ \E insertOrderItem \in InsertOrderItems : CreateOrderItem(insertOrderItem)

SubscribersNext ==
    \/ GetSubscribers
    \/ \E email \in Emails : GetSubscriberByEmail(email)
    \/ \E insertSubscriber \in InsertSubscribers : CreateSubscriber(insertSubscriber)

ContactsNext ==
    \E insertContact \in InsertContacts : CreateContact(insertContact)

SettingsNext ==
    \/ \E args \in GetSettingsArgs : GetSettings(args)
    \/ \E key \in LookupKeys : GetSettingByKey(key)
    \/ \E insertSetting \in InsertSettingsSet : CreateSetting(insertSetting)
    \/ \E id \in SettingIds, settingData \in SettingPatches : UpdateSetting(id, settingData)
    \/ \E id \in SettingIds : DeleteSetting(id)

\* which kinds of entity are still as the constructor left them
AsConstructed ==
    [users |-> users = <<>> /\ userId = 1,
     products |-> products = InitialProducts /\ productId = Len(SeedProducts) + 1,
     categories |-> categories = InitialCategories /\ categoryId = Len(SeedCategories) + 1,
     articles |-> articles = InitialArticles /\ articleId = Len(SeedArticles) + 1,
     orders |-> orders = <<>> /\ orderId = 1,
     orderItems |-> orderItems = <<>> /\ orderItemId = 1,
     subscribers |-> subscribers = <<>> /\ subscriberId = 1,
     contacts |-> contacts = <<>> /\ contactId = 1,
     settings |-> settings = <<>> /\ settingId = 1]

\* the scope of a run: the kinds outside `kinds` are as the constructor left them
Only(kinds) == \A k \in (DOMAIN AsConstructed) \ kinds : AsConstructed[k]

\* The storage operations, called in any order with any of the arguments
\* above; a run works on one family of entities.
Next ==
    \/ Tick
    \/ Only({"users"}) /\ UsersNext /\ UNCHANGED outside
    \/ Only({"products"}) /\ ProductsNext /\ UNCHANGED outside
    \/ Only({"categories"}) /\ CategoriesNext /\ UNCHANGED outside
    \/ Only({"articles"}) /\ ArticlesNext /\ UNCHANGED outside
    \/ Only({"orders"}) /\ OrdersNext /\ UNCHANGED outside
    \/ Only({"orderItems"}) /\ OrderItemsNext /\ UNCHANGED outside
    \/ Only({"subscribers"}) /\ SubscribersNext /\ UNCHANGED outside
    \/ Only({"contacts"}) /\ ContactsNext /\ UNCHANGED outside
    \/ Only({"settings"}) /\ SettingsNext /\ UNCHANGED outside

Spec == Init /\ [][Next]_vars

\* The catalogue: categories and products are created and products listed.
CatalogNext ==
    \/ Tick
    \/ UNCHANGED outside /\ \E insertCategory \in InsertCategories : CreateCategory(insertCategory)
    \/ UNCHANGED outside /\ \E insertProduct \in InsertProducts : CreateProduct(insertProduct)
    \/ UNCHANGED outside /\ \E options \in GetProductsOptions : GetProducts(options)

SpecCatalog == Init /\ [][CatalogNext]_vars

\* Orders with their items.
OrderingNext ==
    \/ Tick
    \/ UNCHANGED outside /\ \E insertOrder \in InsertOrders : CreateOrder(insertOrder)
    \/ UNCHANGED outside /\ \E insertOrderItem \in InsertOrderItems : CreateOrderItem(insertOrderItem)
    \/ UNCHANGED outside /\ \E id \in OrderIds : GetOrder(id)
    \/ UNCHANGED outside /\ \E order \in OrderIds : GetOrderItems(order)

SpecOrdering == Init /\ [][OrderingNext]_vars

\* The relational backend: DatabaseStorage in place of MemStorage.
DatabaseSettingsNext ==
    \/ \E key \in LookupKeys : DatabaseStorage_getSettingByKey(key)
    \/ \E insertSetting \in InsertSettingsSet : DatabaseStorage_createSetting(insertSetting)
    \/ \E id \in SettingIds, setting \in SettingPatches :
           DatabaseStorage_updateSetting(id, setting)
    \/ \E id \in SettingIds : DatabaseStorage_deleteSetting(id)

DatabaseCatalogNext ==
    \/ \E insertProduct \in DatabaseInsertProducts :
           DatabaseStorage_createProduct(insertProduct)
    \/ \E id \in DatabaseProductIds : DatabaseStorage_deleteProduct(id)
    \/ \E insertOrder \in DatabaseInsertOrders : DatabaseStorage_createOrder(insertOrder)
    \/ \E insertOrderItem \in DatabaseInsertOrderItems :
           DatabaseStorage_createOrderItem(insertOrderItem)

\* a run works on the settings or on the catalogue and its orders
DatabaseNext ==
    \/ Tick
    \/ DatabaseOnly({"settings"}) /\ DatabaseSettingsNext
    \/ DatabaseOnly({"products", "orders", "order_items"}) /\ DatabaseCatalogNext

SpecDatabase == Init /\ [][DatabaseNext]_vars

\* Order items and the products they name: items are created, products are
\* updated and deleted, items are listed.
SnapshotNext ==
    \/ UNCHANGED outside /\ \E insertOrderItem \in InsertOrderItems :
           CreateOrderItem(insertOrderItem)
    \/ UNCHANGED outside /\ \E id \in ProductIds, product \in ProductPatches :
           UpdateProduct(id, product)
    \/ UNCHANGED outside /\ \E id \in ProductIds : DeleteProduct(id)
    \/ UNCHANGED outside /\ \E id \in ProductIds : GetProduct(id)
    \/ UNCHANGED outside /\ \E order \in OrderIds : GetOrderItems(order)

SpecSnapshot == Init /\ [][SnapshotNext]_vars

\* Registration: requests arrive and their handlers take their steps in any order.
RegistrationNext ==
    \/ \E userData \in InsertUsers : PostApiAuthRegister(userData)
    \/ \E r \in 1..Len(requests) : RegisterGetUserByEmail(r)
    \/ \E r \in 1..Len(requests) : RegisterCreateUser(r)

SpecRegistration == Init /\ [][RegistrationNext]_vars


\* The settings upsert routes: requests arrive and their handlers take their
\* steps in any order.
UpsertNext ==
    \/ \E body \in BatchBodies : PostApiSettingsBatch(body)
    \/ \E body \in SingleBodies : PostApiSettingsSingle(body)
    \/ \E paymentData \in PaymentBodies : PostApiPaymentSettings(paymentData)
    \/ \E r \in 1..Len(requests) : UpsertGetSettingByKey(r)
    \/ \E r \in 1..Len(requests) : UpsertUpdateSetting(r)
    \/ \E r \in 1..Len(requests) : UpsertCreateSetting(r)

SpecUpsert == Init /\ [][UpsertNext]_vars


\* Checkout: orders placed through the route and read back.
CheckoutNext ==
    \/ Tick
    \/ UNCHANGED outside /\ \E body \in OrderBodies : PostApiOrders(body)
    \/ UNCHANGED outside /\ \E id \in OrderIds : GetOrder(id)
    \/ UNCHANGED outside /\ \E order \in OrderIds : GetOrderItems(order)

SpecCheckout == Init /\ [][CheckoutNext]_vars


\* Concurrent callers of the in-memory backend: calls of createUser and of the
\* writes on products, started in any order and awaited in any order.
ConcurrentNext ==
    \/ \E insertUser \in InsertUsers : CreateUser(insertUser) /\ Promised(FALSE)
    \/ \E insertProduct \in InsertProducts : CreateProduct(insertProduct) /\ Promised(FALSE)
    \/ \E id \in ProductIds, product \in ProductPatches :
           UpdateProduct(id, product) /\ Promised(FALSE)
    \/ \E id \in ProductIds : DeleteProduct(id) /\ Promised(FALSE)
    \/ \E r \in 1..Len(requests) : Await(r)

SpecConcurrent == Init /\ [][ConcurrentNext]_vars


\* Product deletion through the route, on either backend; a run has one
\* active storage.
ProductDeletionNext ==
    \/ DatabaseOnly({}) /\ UNCHANGED outside
          /\ \E insertProduct \in InsertProducts : CreateProduct(insertProduct)
    \/ DatabaseOnly({}) /\ \E id \in ProductIds : DeleteApiProductsId("MemStorage", id)
    \/ Only({}) /\ DatabaseCatalogNext
    \/ Only({}) /\ \E id \in DatabaseProductIds : DeleteApiProductsId("DatabaseStorage", id)

SpecProductDeletion == Init /\ [][ProductDeletionNext]_vars


\* statuses a caller sets: a later one, an earlier one, the empty string
OrderStatuses == {"shipped", "pending", ""}

\* The status of orders on either backend; a run has one active storage.
OrderStatusNext ==
    \/ Tick
    \/ DatabaseOnly({}) /\ UNCHANGED outside
          /\ \E insertOrder \in InsertOrders : CreateOrder(insertOrder)
    \/ DatabaseOnly({}) /\ UNCHANGED outside
          /\ \E id \in OrderIds, status \in OrderStatuses : UpdateOrderStatus(id, status)
    \/ Only({}) /\ \E insertOrder \in DatabaseInsertOrders :
                       DatabaseStorage_createOrder(insertOrder)
    \/ Only({}) /\ \E id \in OrderIds, status \in OrderStatuses :
                       DatabaseStorage_updateOrderStatus(id, status)

SpecOrderStatus == Init /\ [][OrderStatusNext]_vars

\* MemStorage with its objects followed: products, orders and settings are
\* created, read and updated, callers keep what they read, and the caller of
\* createProduct changes an array it passed.
AliasingNext ==
    \/ Only({"products"}) /\ \E insertProduct \in InsertProducts :
                                 HeapCreateProduct(insertProduct)
    \/ Only({"products"}) /\ \E id \in ProductIds : HeapGetProduct(id)
    \/ Only({"products"}) /\ \E id \in ProductIds, product \in ProductPatches :
                                 HeapUpdateProduct(id, product)
    \/ Only({"products"}) /\ \E i \in DOMAIN heap.lists : CallerPush(heap.lists[i])
    \/ Only({"orders"}) /\ \E insertOrder \in InsertOrders : HeapCreateOrder(insertOrder)
    \/ Only({"orders"}) /\ \E id \in OrderIds : HeapGetOrder(id)
    \/ Only({"orders"}) /\ \E id \in OrderIds, status \in OrderStatuses :
                               HeapUpdateOrderStatus(id, status)
    \/ Only({"settings"}) /\ \E insertSetting \in InsertSettingsSet :
                                 HeapCreateSetting(insertSetting)
    \/ Only({"settings"}) /\ \E i \in DOMAIN SettingKeys :
                                 HeapGetSettingByKey(SettingKeys[i])
    \/ Only({"settings"}) /\ \E id \in SettingIds, settingData \in SettingPatches :
                                 HeapUpdateSetting(id, settingData)

SpecAliasing == Init /\ [][AliasingNext]_vars

(* ------------------------------- claims -------------------------------- *)

\* the step is a call of operation op (a call sets `call`, time passing does not)
Called(op) == call'.op = op /\ now' = now

\* the fields the backend assigns
ServerAssigned == {"id", "createdAt", "updatedAt"}

\* entity e carries every field the caller supplied in payload p
EqualOnSupplied(e, p) ==
    /\ e # Undefined
    /\ \A f \in (DOMAIN p) \ ServerAssigned : f \in DOMAIN e /\ e[f] = p[f]

Populated(e, f) == f \in DOMAIN e /\ e[f] \in Nat

\* no entry of map m other than the one under key id holds an entity with that id
OthersDiffer(m, id) ==
    \A i \in 1..Len(m) : m[i].key # id => m[i].val.id # id

CreatedAndFetched(fetched, p, m) ==
    /\ EqualOnSupplied(fetched, p)
    /\ Populated(fetched, "id")
    /\ Populated(fetched, "createdAt")
    /\ OthersDiffer(m, ret.id)

\* C1: right after create*(p) returned e, the getter (getUser, getProduct,
\* getArticle, getOrder by e.id; getSettingByKey by e.key) returns an entity
\* equal to p in every caller-supplied field, with id and createdAt (and
\* updatedAt for a setting) populated, and no other stored entity of the kind
\* has the id e.id.
C1_CreateThenGet ==
    /\ call.op = "createUser" =>
           CreatedAndFetched(getUser(ret.id), call.insertUser, users)
    /\ call.op = "createProduct" =>
           CreatedAndFetched(getProduct(ret.id), call.insertProduct, products)
    /\ call.op = "createArticle" =>
           CreatedAndFetched(getArticle(ret.id), call.insertArticle, articles)
    /\ call.op = "createOrder" =>
           CreatedAndFetched(getOrder(ret.id), call.insertOrder, orders)
    /\ call.op = "createSetting" =>
           /\ CreatedAndFetched(getSettingByKey(ret.key), call.insertSetting, settings)
           /\ Populated(getSettingByKey(ret.key), "updatedAt")

\* C2: updateProduct(id, partial) on a stored id returns and stores a product
\* that has the supplied value in every field partial names and the value from
\* before the call in every other field; on an id that is not stored it returns
\* undefined and leaves the products as they were.
C2_UpdateProductMerges ==
    [][Called("updateProduct") =>
          LET id == call'.id
              partial == call'.product
              before == MapGet(products, id)
              after == MapGet(products', id)
          IN  IF MapHas(products, id)
              THEN /\ ret' = after
                   /\ after # Undefined
                   /\ DOMAIN after = (DOMAIN before) \cup (DOMAIN partial)
                   /\ \A f \in DOMAIN partial : after[f] = partial[f]
                   /\ \A f \in (DOMAIN before) \ (DOMAIN partial) : after[f] = before[f]
              ELSE /\ ret' = Undefined
                   /\ products' = products]_vars

\* a seeded product was updated with a payload of two fields: both took the
\* supplied values and the name stayed
C2_Witness ==
    /\ call.op = "updateProduct"
    /\ call.id = 1
    /\ call.product = [price |-> 999, isFeatured |-> FALSE]
    /\ ret # Undefined
    /\ ret.price = 999
    /\ ret.name = "Coral Reef One-Piece"

\* C3: deleteProduct(id) and deleteSetting(id) return true exactly when the id
\* was stored when they were called, afterwards the id is not stored, and when
\* it was not stored the mapping is unchanged (so a second delete returns false).
C3_DeleteReportsExistence ==
    [][/\ Called("deleteProduct") =>
              /\ ret' = MapHas(products, call'.id)
              /\ MapGet(products', call'.id) = Undefined
              /\ ~MapHas(products, call'.id) => products' = products
       /\ Called("deleteSetting") =>
              /\ ret' = MapHas(settings, call'.id)
              /\ MapGet(settings', call'.id) = Undefined
              /\ ~MapHas(settings, call'.id) => settings' = settings]_vars

\* a seeded product was deleted and deleted again: the second call returned false
C3_Witness ==
    /\ call.op = "deleteProduct"
    /\ call.id = 1
    /\ ret = FALSE
    /\ Len(products) < Len(InitialProducts)

\* a counter never decreases, stays above every key stored, and a create
\* returns an id that is at least the counter before it and below the counter after
Mints(op, counter, counterAfter, mapAfter) ==
    /\ counterAfter >= counter
    /\ \A k \in MapKeys(mapAfter) : k < counterAfter
    /\ Called(op) => ret'.id >= counter /\ ret'.id < counterAfter

\* C4: for each of the nine kinds, an id a create returns is greater than every
\* id returned before for the kind: across every step the kind's counter is
\* above all ids given out so far and never decreases, and a create returns an
\* id not below it. An id freed by deleteProduct or deleteSetting is below the
\* counter, so it is not given out again.
C4_IdsIncrease ==
    [][/\ Mints("createUser", userId, userId', users')
       /\ Mints("createProduct", productId, productId', products')
       /\ Mints("createCategory", categoryId, categoryId', categories')
       /\ Mints("createArticle", articleId, articleId', articles')
       /\ Mints("createOrder", orderId, orderId', orders')
       /\ Mints("createOrderItem", orderItemId, orderItemId', orderItems')
       /\ Mints("createSubscriber", subscriberId, subscriberId', subscribers')
       /\ Mints("createContact", contactId, contactId', contacts')
       /\ Mints("createSetting", settingId, settingId', settings')]_vars

\* a setting was created after setting 1 had been deleted, and got id 2
C4_Witness ==
    /\ call.op = "createSetting"
    /\ ret.id = 2
    /\ ~MapHas(settings, 1)

IdIsKey(m) == \A i \in 1..Len(m) : m[i].val.id = m[i].key

\* C5: in every reachable state every entity stored under key k has id k.
C5_IdNeverMutated ==
    /\ IdIsKey(users)
    /\ IdIsKey(products)
    /\ IdIsKey(categories)
    /\ IdIsKey(articles)
    /\ IdIsKey(orders)
    /\ IdIsKey(orderItems)
    /\ IdIsKey(subscribers)
    /\ IdIsKey(contacts)
    /\ IdIsKey(settings)

Carries(m, field, v) == \E i \in 1..Len(m) : m[i].val[field] = v

\* the result of a lookup of value v in a field of the entities of map m
LooksUp(result, m, field, v) ==
    IF Carries(m, field, v)
    THEN result # Undefined /\ result[field] = v
    ELSE result = Undefined

\* C6: right after an entity was created with value v in its unique field the
\* lookup with v returns an entity whose field is v; and any lookup returns an
\* entity whose field is the value looked up when some stored entity carries
\* it, undefined when none does.
C6_UniqueFieldLookup ==
    /\ call.op = "createUser" =>
           /\ getUserByEmail(ret.email) # Undefined
           /\ getUserByEmail(ret.email).email = call.insertUser.email
           /\ getUserByUsername(ret.username) # Undefined
           /\ getUserByUsername(ret.username).username = call.insertUser.username
    /\ call.op = "createCategory" =>
           /\ getCategoryBySlug(ret.slug) # Undefined
           /\ getCategoryBySlug(ret.slug).slug = call.insertCategory.slug
    /\ call.op = "createArticle" =>
           /\ getArticleBySlug(ret.slug) # Undefined
           /\ getArticleBySlug(ret.slug).slug = call.insertArticle.slug
    /\ call.op = "createSubscriber" =>
           /\ getSubscriberByEmail(ret.email) # Undefined
           /\ getSubscriberByEmail(ret.email).email = call.insertSubscriber.email
    /\ call.op = "createSetting" =>
           /\ getSettingByKey(ret.key) # Undefined
           /\ getSettingByKey(ret.key).key = call.insertSetting.key
    /\ call.op = "getUserByEmail" => LooksUp(ret, users, "email", call.email)
    /\ call.op = "getUserByUsername" => LooksUp(ret, users, "username", call.username)
    /\ call.op = "getCategoryBySlug" => LooksUp(ret, categories, "slug", call.slug)
    /\ call.op = "getArticleBySlug" => LooksUp(ret, articles, "slug", call.slug)
    /\ call.op = "getSubscriberByEmail" => LooksUp(ret, subscribers, "email", call.email)
    /\ call.op = "getSettingByKey" => LooksUp(ret, settings, "key", call.key)

\* two users share an email and the lookup by that email found one of them
C6_Witness ==
    /\ call.op = "getUserByEmail"
    /\ Len(users) = 2
    /\ users[1].val.email = users[2].val.email
    /\ users[1].val.username # users[2].val.username
    /\ ret # Undefined
    /\ ret.email = call.email

\* product p meets every criterion options supplies
MeetsCriteria(p, options) ==
    /\ "category" \in DOMAIN options => p.category = options.category
    /\ "featured" \in DOMAIN options => p.isFeatured = options.featured

Elements(seq) == {seq[i] : i \in 1..Len(seq)}

\* C7: getProducts returns no product that fails a supplied criterion
\* (category, featured, or both), and without pagination it returns exactly the
\* stored products that meet all supplied criteria.
C7_FilterExact ==
    call.op = "getProducts" =>
        /\ \A i \in 1..Len(ret) : MeetsCriteria(ret[i], call.options)
        /\ (DOMAIN call.options) \cap {"limit", "offset"} = {} =>
               Elements(ret) =
                   {p \in Elements(MapValues(products)) : MeetsCriteria(p, call.options)}

\* options without the pagination
Unpaginated(options) ==
    [f \in (DOMAIN options) \ {"limit", "offset"} |-> options[f]]

\* positions offset .. offset+limit-1 of list, from 0 when no offset is supplied
\* and to the end when no limit is supplied
Page(list, options) ==
    LET offset == IF "offset" \in DOMAIN options THEN options.offset ELSE 0
        end == IF "limit" \in DOMAIN options
               THEN offset + options.limit ELSE Len(list)
    IN  Slice(list, offset, end)

\* C8: getProducts and getArticles return the elements at positions
\* offset .. offset+limit-1 of the filtered sequence, starting at 0 when no
\* offset is supplied and running to the end when no limit is supplied.
C8_Pagination ==
    /\ call.op = "getProducts" =>
           ret = Page(getProducts(Unpaginated(call.options)), call.options)
    /\ call.op = "getArticles" =>
           ret = Page(getArticles(Unpaginated(call.options)), call.options)

\* the scenario: on the constructed backend createCategory(Swimwear) and
\* createProduct(Coral Reef One-Piece) were called, then
\* getProducts({category: "swimwear"})
C9_Scenario ==
    /\ categories = MapSet(InitialCategories, Len(SeedCategories) + 1,
                           newCategory([name |-> "Swimwear", slug |-> "swimwear"],
                                       Len(SeedCategories) + 1))
    /\ Len(products) = Len(SeedProducts) + 1
    /\ SubSeq(products, 1, Len(SeedProducts)) = InitialProducts
    /\ products[Len(products)].val.name = "Coral Reef One-Piece"
    /\ products[Len(products)].val.price = 250
    /\ products[Len(products)].val.category = "swimwear"
    /\ call = [op |-> "getProducts", options |-> [category |-> "swimwear"]]

\* C9 as claimed: the scenario's getProducts returns exactly one result, named
\* "Coral Reef One-Piece" with price 250.
C9_OneResult ==
    C9_Scenario =>
        /\ Len(ret) = 1
        /\ ret[1].name = "Coral Reef One-Piece"
        /\ ret[1].price = 250

\* C9 as amended: the scenario's getProducts returns four results, the three
\* swimwear products the constructor seeds (ids 1, 2, 3) and then the created
\* product, named "Coral Reef One-Piece" with price 250.
C9_SeededThenCreated ==
    C9_Scenario =>
        /\ Len(ret) = 4
        /\ [i \in 1..4 |-> ret[i].id] = <<1, 2, 3, Len(SeedProducts) + 1>>
        /\ \A i \in 1..3 : ret[i] = InitialProducts[i].val
        /\ ret[4].name = "Coral Reef One-Piece"
        /\ ret[4].price = 250
        /\ ret[4] = products[Len(products)].val

C9_Witness == C9_Scenario

\* C10: getOrderItems(o) returns the stored order items whose orderId is o,
\* each once and no other; every order item created is stored, unchanged.
C10_OrderItemsOfOrder ==
    /\ Len(orderItems) = orderItemId - 1
    /\ call.op = "createOrderItem" =>
           /\ ret.orderId = call.insertOrderItem.orderId
           /\ MapGet(orderItems, ret.id) = ret
    /\ call.op = "getOrderItems" =>
           /\ \A i \in 1..Len(ret) : ret[i].orderId = call.orderId
           /\ \A i, j \in 1..Len(ret) : ret[i].id = ret[j].id => i = j
           /\ Elements(ret) =
                  {item \in Elements(MapValues(orderItems)) : item.orderId = call.orderId}

\* an order was created, two items were created for it and one for another
\* order, and getOrderItems returned the two
C10_Witness ==
    /\ call.op = "getOrderItems"
    /\ MapHas(orders, call.orderId)
    /\ Len(orderItems) = 3
    /\ Len(ret) = 2

\* seq is in ascending order of key
SortedByKey(seq) ==
    \A i, j \in 1..Len(seq) : i < j => CompareKeys(seq[i], seq[j]) <= 0

\* C11: getSettings(category?) returns all stored settings when no category is
\* supplied and otherwise exactly the stored settings whose category equals the
\* argument, in ascending order of key, whatever the order of creation, update
\* and deletion.
C11_GetSettingsSorted ==
    call.op = "getSettings" =>
        LET all == MapValues(settings)
            wanted == IF "category" \in DOMAIN call.args
                      THEN Filter(all, LAMBDA setting : setting.category = call.args.category)
                      ELSE all
        IN  /\ SortedByKey(ret)
            /\ Len(ret) = Len(wanted)
            /\ Elements(ret) = Elements(wanted)

\* C12: getSettings changes no mapping and no id counter, and the same call
\* made again right after it returns the same sequence.
C12_GetSettingsReadOnly ==
    [][Called("getSettings") =>
          /\ maps' = maps
          /\ counters' = counters
          /\ \A args \in GetSettingsArgs :
                 call'.args = args =>
                     /\ ret' = getSettings(args)
                     /\ ret' = (getSettings(args))']_vars

\* two settings are stored in an order that is not the order of their keys and
\* getSettings returned both, sorted
C12_Witness ==
    /\ call.op = "getSettings"
    /\ Len(settings) = 2
    /\ settings[1].val.key = "site.logoUrl"
    /\ settings[2].val.key = "payment.currency"
    /\ Len(ret) = 2
    /\ ret[1].key = "payment.currency"

\* the update at time t of a setting that was `before` left it as `after`:
\* updatedAt is the time of the update, not earlier than it was, later than
\* createdAt once time has advanced, and createdAt is as it was
Refreshed(before, after, t) ==
    /\ after.updatedAt = t
    /\ after.updatedAt >= before.updatedAt
    /\ t > before.createdAt => after.updatedAt > after.createdAt
    /\ after.createdAt = before.createdAt

\* C13: in both backends, after updateSetting(id, payload) on an existing
\* setting the stored setting's updatedAt is the time of the update and its
\* createdAt is unchanged.
C13_UpdatedAtRefreshed ==
    [][/\ (Called("updateSetting") /\ MapHas(settings, call'.id)) =>
              Refreshed(MapGet(settings, call'.id), MapGet(settings', call'.id), now)
       /\ (Called("DatabaseStorage.updateSetting")
              /\ RowWithId(db.settings, call'.id) # Undefined) =>
              Refreshed(RowWithId(db.settings, call'.id),
                        RowWithId(db'.settings, call'.id), now)]_vars

\* C14 as claimed: in the relational backend deleteProduct(id) and
\* deleteSetting(id) return true whether or not a row with the id existed,
\* also when an order item still references the product.
C14_DeleteAlwaysTrue ==
    [][(Called("DatabaseStorage.deleteProduct") \/ Called("DatabaseStorage.deleteSetting")) =>
          /\ call'.settled = "fulfilled"
          /\ ret' = TRUE]_vars

\* C14 as amended: deleteSetting(id) returns true whether or not a row
\* existed, and no row with the id is left; deleteProduct(id) does the same
\* unless an order item references the product: then the database rejects the
\* delete, the call fails without a value and every row stays.
C14_DeleteTrueUnlessReferenced ==
    [][/\ Called("DatabaseStorage.deleteSetting") =>
              /\ call'.settled = "fulfilled"
              /\ ret' = TRUE
              /\ RowWithId(db'.settings, call'.id) = Undefined
       /\ Called("DatabaseStorage.deleteProduct") =>
              IF ReferencedByOrderItem(call'.id)
              THEN /\ call'.settled = "rejected"
                   /\ ret' = Thrown("foreign_key_violation")
                   /\ db' = db
              ELSE /\ call'.settled = "fulfilled"
                   /\ ret' = TRUE
                   /\ RowWithId(db'.products, call'.id) = Undefined]_vars

\* a product that an order item references was asked to be deleted: the call
\* was rejected and the product is still there
C14_Witness ==
    /\ call.op = "DatabaseStorage.deleteProduct"
    /\ call.settled = "rejected"
    /\ ReferencedByOrderItem(call.id)
    /\ RowWithId(db.products, call.id) # Undefined

\* every key of map m is a key of mAfter
KeysKept(m, mAfter) == \A k \in MapKeys(m) : MapHas(mAfter, k)

\* every entity of map m is in mAfter under the same key with the same fields
EntitiesKept(m, mAfter) ==
    \A i \in 1..Len(m) : MapGet(mAfter, m[i].key) = m[i].val

IsEntity(v) == "id" \in DOMAIN v

CreateOperations ==
    {"createUser", "createProduct", "createCategory", "createArticle", "createOrder",
     "createOrderItem", "createSubscriber", "createContact", "createSetting"}

\* the operations that return an entity or undefined
LookupOperations ==
    {"getUser", "getUserByUsername", "getUserByEmail", "getProduct", "updateProduct",
     "getCategoryBySlug", "getArticle", "getArticleBySlug", "getOrder",
     "updateOrderStatus", "getSubscriberByEmail", "getSettingByKey", "updateSetting"}

ListOperations ==
    {"getProducts", "getCategories", "getArticles", "getUserOrders", "getOrderItems",
     "getSubscribers", "getSettings"}

DeleteOperations == {"deleteProduct", "deleteSetting"}

\* the storage operation A can be called in the current state
Callable(A) == ENABLED (A /\ UNCHANGED outside)

\* The operations of a kind can be called with every argument, a create with
\* every payload (duplicates of unique fields included) as long as the run has
\* ids left for the kind. An operation reads and writes the map and counter of
\* its own kind only, so it is evaluated where its kind is in the scope of the run.
UsersCallable ==
    /\ \A id \in UserIds : Callable(GetUser(id))
    /\ \A username \in Usernames : Callable(GetUserByUsername(username))
    /\ \A email \in Emails : Callable(GetUserByEmail(email))
    /\ userId < 1 + MaxNew =>
           \A insertUser \in InsertUsers : Callable(CreateUser(insertUser))

ProductsCallable ==
    /\ \A id \in ProductIds : Callable(GetProduct(id)) /\ Callable(DeleteProduct(id))
    /\ \A options \in GetProductsOptions : Callable(GetProducts(options))
    /\ \A id \in ProductIds, product \in ProductPatches : Callable(UpdateProduct(id, product))
    /\ productId < Len(SeedProducts) + 1 + MaxNewSeeded =>
           \A insertProduct \in InsertProducts : Callable(CreateProduct(insertProduct))

CategoriesCallable ==
    /\ Callable(GetCategories)
    /\ \A slug \in Slugs : Callable(GetCategoryBySlug(slug))
    /\ categoryId < Len(SeedCategories) + 1 + MaxNewSeeded =>
           \A insertCategory \in InsertCategories : Callable(CreateCategory(insertCategory))

ArticlesCallable ==
    /\ \A id \in ArticleIds : Callable(GetArticle(id))
    /\ \A slug \in ArticleSlugs : Callable(GetArticleBySlug(slug))
    /\ \A options \in GetArticlesOptions : Callable(GetArticles(options))
    /\ articleId < Len(SeedArticles) + 1 + MaxNewSeeded =>
           \A insertArticle \in InsertArticles : Callable(CreateArticle(insertArticle))

OrdersCallable ==
    /\ \A id \in OrderIds : Callable(GetOrder(id))
    /\ \A user \in UserIds : Callable(GetUserOrders(user))
    /\ \A id \in OrderIds, status \in Statuses : Callable(UpdateOrderStatus(id, status))
    /\ orderId < 1 + MaxNew =>
           \A insertOrder \in InsertOrders : Callable(CreateOrder(insertOrder))

OrderItemsCallable ==
    /\ \A id \in OrderIds : Callable(GetOrderItems(id))
    /\ orderItemId < 1 + MaxItems =>
           \A insertOrderItem \in InsertOrderItems : Callable(CreateOrderItem(insertOrderItem))

SubscribersCallable ==
    /\ Callable(GetSubscribers)
    /\ \A email \in Emails : Callable(GetSubscriberByEmail(email))
    /\ subscriberId < 1 + MaxNew =>
           \A insertSubscriber \in InsertSubscribers :
               Callable(CreateSubscriber(insertSubscriber))

ContactsCallable ==
    contactId < 1 + MaxNew =>
        \A insertContact \in InsertContacts : Callable(CreateContact(insertContact))

SettingsCallable ==
    /\ \A args \in GetSettingsArgs : Callable(GetSettings(args))
    /\ \A key \in LookupKeys : Callable(GetSettingByKey(key))
    /\ \A id \in SettingIds, settingData \in SettingPatches :
           Callable(UpdateSetting(id, settingData))
    /\ \A id \in SettingIds : Callable(DeleteSetting(id))
    /\ settingId < 1 + MaxNew =>
           \A insertSetting \in InsertSettingsSet : Callable(CreateSetting(insertSetting))

EveryOperationCallable ==
    /\ Only({"users"}) => UsersCallable
    /\ Only({"products"}) => ProductsCallable
    /\ Only({"categories"}) => CategoriesCallable
    /\ Only({"articles"}) => ArticlesCallable
    /\ Only({"orders"}) => OrdersCallable
    /\ Only({"orderItems"}) => OrderItemsCallable
    /\ Only({"subscribers"}) => SubscribersCallable
    /\ Only({"contacts"}) => ContactsCallable
    /\ Only({"settings"}) => SettingsCallable

\* C16: in every reachable state every operation of the in-memory backend can
\* be called with every argument and answers with a value of its kind: a
\* create with an entity, a lookup or update with an entity or undefined, a
\* listing with a sequence of entities, a delete with a boolean; none answers
\* with an error.
C16_NoOperationFails ==
    /\ EveryOperationCallable
    /\ call.op \in CreateOperations => IsEntity(ret)
    /\ call.op \in LookupOperations => ret = Undefined \/ IsEntity(ret)
    /\ call.op \in ListOperations =>
           /\ DOMAIN ret = 1..Len(ret)
           /\ \A i \in 1..Len(ret) : IsEntity(ret[i])
    /\ call.op \in DeleteOperations => ret \in BOOLEAN

\* a user was created with an email that a stored user already has, and the
\* call answered with the new user
C16_Witness ==
    /\ call.op = "createUser"
    /\ Len(users) = 2
    /\ users[1].val.email = users[2].val.email
    /\ ret = users[2].val

\* item is as createOrderItem built it from one of the payloads
AsCreated(item) ==
    \E insertOrderItem \in InsertOrderItems : item = newOrderItem(insertOrderItem, item.id)

\* C17: updateProduct and deleteProduct leave every order item as it is; every
\* stored order item has the price, quantity, productId and orderId it was
\* created with, and getOrderItems returns the stored items, with those values.
C17_PriceIsSnapshot ==
    [][/\ (Called("updateProduct") \/ Called("deleteProduct")) => orderItems' = orderItems
       /\ \A i \in 1..Len(orderItems') : AsCreated(orderItems'[i].val)
       /\ Called("getOrderItems") =>
              \A i \in 1..Len(ret') :
                  /\ ret'[i] = MapGet(orderItems', ret'[i].id)
                  /\ AsCreated(ret'[i])]_vars

\* an item was created for product 1 at price 250, the product's price was
\* then changed to 999, and getOrderItems returned the item at 250
C17_Witness ==
    /\ call.op = "getOrderItems"
    /\ Len(ret) = 1
    /\ ret[1].productId = 1
    /\ ret[1].price = 250
    /\ MapHas(products, 1)
    /\ MapGet(products, 1).price = 999

\* C18: under any interleaving of POST /api/auth/register requests no two
\* stored users have the same email, and of the requests naming one email at
\* most one is answered 201.
C18_EmailUniqueUnderRegistration ==
    /\ \A i, j \in 1..Len(db.users) :
           db.users[i].email = db.users[j].email => i = j
    /\ \A q, r \in 1..Len(requests) :
           (/\ requests[q].route = "POST /api/auth/register"
            /\ requests[r].route = "POST /api/auth/register"
            /\ requests[q].status = 201
            /\ requests[r].status = 201
            /\ requests[q].body.email = requests[r].body.email) => q = r

\* C19: under any sequence and interleaving of POST /api/settings (single and
\* batch form) and POST /api/payment-settings requests no two stored settings
\* have the same key.
C19_KeysUniqueUnderUpsert ==
    \A i, j \in 1..Len(db.settings) :
        db.settings[i].key = db.settings[j].key => i = j

\* items is the sequence of requested items from which stored was created for
\* order `order`, one stored item per requested item, in order
StoredFrom(stored, items, order) ==
    /\ Len(stored) <= Len(items)
    /\ \A i \in 1..Len(stored) :
           /\ stored[i].orderId = order
           /\ EqualOnSupplied(stored[i], items[i])

\* C20: POST /api/orders is not atomic. When the order parses and the request
\* is answered 400 because an item was rejected, the order is stored all the
\* same, with the items before the rejected one and no others: a proper prefix
\* of the requested items.
C20_OrderNotAtomic ==
    [][\A id \in 1..MaxNew, body \in OrderBodies :
          (/\ Called("POST /api/orders")
           /\ call'.body = body
           /\ orderId = id
           /\ ParsesAsInsertOrder(body)
           /\ ret'.status = 400)
          => /\ getOrder(id) = Undefined
             /\ (getOrder(id))' # Undefined
             /\ Len((getOrderItems(id))') = FirstRejected(id, ItemsOf(body)) - 1
             /\ Len((getOrderItems(id))') < Len(ItemsOf(body))
             /\ StoredFrom((getOrderItems(id))', ItemsOf(body), id)]_vars

\* a request of two items answered 400 with the order and the first item stored
C20_Witness ==
    /\ call.op = "POST /api/orders"
    /\ ret.status = 400
    /\ Len(ItemsOf(call.body)) = 2
    /\ MapHas(orders, orderId - 1)
    /\ Len(getOrderItems(orderId - 1)) = 1
    /\ getOrderItems(orderId - 1)[1].productId = 1

\* the users and products a store holds, with their counters
Constructed ==
    [users |-> <<>>, userId |-> 1,
     products |-> InitialProducts, productId |-> Len(SeedProducts) + 1]

\* one call executed alone on store s
Alone(s, c, at) ==
    CASE c.op = "createUser" ->
            [s EXCEPT !.users = MapSet(@, s.userId, newUser(c.insertUser, s.userId, at)),
                      !.userId = @ + 1]
      [] c.op = "createProduct" ->
            [s EXCEPT !.products = MapSet(@, s.productId,
                                          newProduct(c.insertProduct, s.productId, at)),
                      !.productId = @ + 1]
      [] c.op = "updateProduct" ->
            IF MapHas(s.products, c.id)
            THEN [s EXCEPT !.products =
                      MapSet(@, c.id, Spread(MapGet(s.products, c.id), c.product))]
            ELSE s
      [] c.op = "deleteProduct" ->
            [s EXCEPT !.products = SelectSeq(@, LAMBDA e : e.key # c.id)]

RECURSIVE OneAfterAnother(_, _, _)
\* the calls of `promises` executed one after another in the order `order`
OneAfterAnother(s, promises, order) ==
    IF order = <<>> THEN s
    ELSE OneAfterAnother(Alone(s, promises[order[1]].call, promises[order[1]].at),
                         promises, Tail(order))

Orders(n) == {order \in [1..n -> 1..n] : \A i, j \in 1..n : order[i] = order[j] => i = j}

IsCreate(promise) == promise.call.op \in {"createUser", "createProduct"}

\* C21: under any interleaving of logically concurrent in-memory calls two
\* creates of the same kind never get the same id, no created entity is
\* overwritten by another create, and the store is the one some sequential
\* order of the calls produces.
C21_CallsAreIndivisible ==
    /\ \A q, r \in 1..Len(requests) :
           (/\ IsCreate(requests[q])
            /\ requests[q].call.op = requests[r].call.op
            /\ requests[q].value.id = requests[r].value.id) => q = r
    /\ \A r \in 1..Len(requests) :
           requests[r].call.op = "createUser" =>
               MapGet(users, requests[r].value.id) = requests[r].value
    /\ \E order \in Orders(Len(requests)) :
           OneAfterAnother(Constructed, requests, order)
               = [users |-> users, userId |-> userId,
                  products |-> products, productId |-> productId]

\* two createUser calls started before either was awaited, the second awaited first
C21_Witness ==
    /\ Len(requests) >= 2
    /\ requests[1].call.op = "createUser"
    /\ requests[2].call.op = "createUser"
    /\ ~requests[1].awaited
    /\ requests[2].awaited
    /\ Len(users) = 2

\* a product with this id is stored in the active backend
ProductStored(storage, id) ==
    IF storage = "MemStorage" THEN MapHas(products, id)
    ELSE RowWithId(db.products, id) # Undefined

\* C22: on either backend DELETE /api/products/:id answers 404 whenever no
\* product with the id is stored, and 204 only when a product was removed.
C22_DeleteRouteSameOnBothBackends ==
    [][\A storage \in {"MemStorage", "DatabaseStorage"},
         id \in ProductIds \cup DatabaseProductIds :
          (/\ Called("DELETE /api/products/:id")
           /\ call'.storage = storage
           /\ call'.id = id)
          => /\ ~ProductStored(storage, id) => ret'.status = 404
             /\ ret'.status = 204 =>
                    ProductStored(storage, id) /\ ~(ProductStored(storage, id))']_vars

\* C23: every stored order item names a stored order and a stored product, in
\* the in-memory store and in the relational one.
C23_OrderItemsReferenceStored ==
    /\ \A i \in 1..Len(orderItems) :
           /\ MapHas(orders, orderItems[i].val.orderId)
           /\ MapHas(products, orderItems[i].val.productId)
    /\ \A i \in 1..Len(db.order_items) :
           /\ RowWithId(db.orders, db.order_items[i].orderId) # Undefined
           /\ RowWithId(db.products, db.order_items[i].productId) # Undefined

\* C24: a supplied limit n, zero included, bounds the result of getProducts
\* and getArticles: at most n elements are returned.
C24_LimitBoundsResult ==
    (/\ call.op \in {"getProducts", "getArticles"}
     /\ "limit" \in DOMAIN call.options)
    => Len(ret) <= call.options.limit

\* result is, of the entities of map m whose field is v, the one with the
\* smallest id
SmallestIdOf(result, m, field, v) ==
    Carries(m, field, v) =>
        /\ result # Undefined
        /\ result[field] = v
        /\ \A i \in 1..Len(m) : m[i].val[field] = v => result.id <= m[i].val.id

\* C25: when several stored entities carry the value looked up, the in-memory
\* lookup by a unique field returns the one created first among those still
\* stored, the one with the smallest id, whatever creates, updates and deletes
\* came before.
C25_FirstCreatedWins ==
    /\ call.op = "getUserByUsername" => SmallestIdOf(ret, users, "username", call.username)
    /\ call.op = "getUserByEmail" => SmallestIdOf(ret, users, "email", call.email)
    /\ call.op = "getCategoryBySlug" => SmallestIdOf(ret, categories, "slug", call.slug)
    /\ call.op = "getArticleBySlug" => SmallestIdOf(ret, articles, "slug", call.slug)
    /\ call.op = "getSubscriberByEmail" =>
           SmallestIdOf(ret, subscribers, "email", call.email)
    /\ call.op = "getSettingByKey" => SmallestIdOf(ret, settings, "key", call.key)

\* two settings carry the key looked up, the first of them updated since it
\* was created, and the lookup returned the first
C25_Witness ==
    /\ call.op = "getSettingByKey"
    /\ Len(settings) = 2
    /\ settings[1].val.key = call.key
    /\ settings[2].val.key = call.key
    /\ settings[1].val.updatedAt > settings[1].val.createdAt
    /\ ret.id = settings[1].val.id
    /\ ret.id < settings[2].val.id

\* the entities of seq are in ascending order of id
AscendingIds(seq) == \A i, j \in 1..Len(seq) : i < j => seq[i].id < seq[j].id

\* C26: the in-memory listings getProducts, getArticles, getUserOrders,
\* getCategories and getSubscribers return the entities in creation order,
\* which is ascending id order, after any creates, updates and deletes.
C26_ListingsInCreationOrder ==
    call.op \in {"getProducts", "getArticles", "getUserOrders", "getCategories",
                 "getSubscribers"}
    => AscendingIds(ret)

\* the optional fields of each kind with the value an in-memory create gives
\* them when the payload omits them
CreateDefaults ==
    [createUser |-> [firstName |-> Null, lastName |-> Null, phone |-> Null],
     createProduct |-> [discountPrice |-> Null, images |-> Null, inStock |-> TRUE,
                        isFeatured |-> FALSE, isLimited |-> FALSE,
                        limitedCount |-> Null, sustainableMaterials |-> Null,
                        madeIn |-> Null],
     createArticle |-> [category |-> Null, excerpt |-> Null, coverImage |-> Null],
     createOrder |-> [userId |-> Null, shippingAddress |-> Null,
                      billingAddress |-> Null, paymentMethod |-> Null,
                      paymentStatus |-> Null],
     createContact |-> [subject |-> Null],
     createSetting |-> [value |-> Null, category |-> "general", description |-> Null]]

\* the payload of a create call
PayloadOf(c) ==
    CASE c.op = "createUser" -> c.insertUser
      [] c.op = "createProduct" -> c.insertProduct
      [] c.op = "createArticle" -> c.insertArticle
      [] c.op = "createOrder" -> c.insertOrder
      [] c.op = "createContact" -> c.insertContact
      [] c.op = "createSetting" -> c.insertSetting

\* the map a create call stores into
MapOf(c) ==
    CASE c.op = "createUser" -> users
      [] c.op = "createProduct" -> products
      [] c.op = "createArticle" -> articles
      [] c.op = "createOrder" -> orders
      [] c.op = "createContact" -> contacts
      [] c.op = "createSetting" -> settings

\* entity e has every optional field: the supplied value where payload p
\* supplies one, the default otherwise
DefaultsApplied(e, p, defaults) ==
    \A f \in DOMAIN defaults :
        /\ f \in DOMAIN e
        /\ e[f] = IF f \in DOMAIN p THEN p[f] ELSE defaults[f]

OnlyStatusSet(before, after, s) ==
    /\ after # Undefined
    /\ DOMAIN after = DOMAIN before
    /\ after.status = s
    /\ \A f \in (DOMAIN before) \ {"status"} : after[f] = before[f]

\* C28: updateOrderStatus(id, s) sets the status of a stored order to s
\* whatever the status was and whatever s is, leaves the order's other fields
\* and the other orders as they were, and returns the updated order; on an id
\* that is not stored it returns undefined and changes nothing. On both
\* backends.
C28_UpdateOrderStatusFreeForm ==
    [][\A id \in OrderIds, s \in OrderStatuses :
          /\ (Called("updateOrderStatus") /\ call'.id = id /\ call'.status = s) =>
                 IF MapHas(orders, id)
                 THEN /\ OnlyStatusSet(MapGet(orders, id), ret', s)
                      /\ orders' = MapSet(orders, id, ret')
                      /\ Len(orders') = Len(orders)
                 ELSE ret' = Undefined /\ orders' = orders
          /\ (/\ Called("DatabaseStorage.updateOrderStatus")
              /\ call'.id = id /\ call'.status = s) =>
                 IF RowWithId(db.orders, id) # Undefined
                 THEN /\ OnlyStatusSet(RowWithId(db.orders, id), ret', s)
                      /\ Len(db'.orders) = Len(db.orders)
                      /\ \A i \in 1..Len(db.orders) :
                             db'.orders[i] = IF db.orders[i].id = id THEN ret'
                                             ELSE db.orders[i]
                 ELSE ret' = Undefined /\ db' = db]_vars

\* the order created as "paid" for user 1 is "pending" after the call
C28_Witness ==
    /\ call.op = "updateOrderStatus"
    /\ call.status = "pending"
    /\ MapHas(orders, call.id)
    /\ ret.userId = Some(1)
    /\ ret.total = 90
    /\ ret.status = "pending"
    /\ MapGet(orders, call.id) = ret

\* the map of a kind by value and the objects it refers to hold the same
\* entities under the same keys
SameEntities(m, refs) ==
    /\ Len(m) = Len(refs)
    /\ \A i \in DOMAIN m :
          /\ m[i].key = refs[i].key
          /\ m[i].val = DeepValue(heap, refs[i].val)

\* C29: in the in-memory backend every value a caller got from getProduct,
\* getOrder or getSettingByKey still shows the field values it had when it was
\* handed out, whatever was updated since, and every stored product, order
\* and setting has the value its create and updates gave it, whatever the
\* caller of createProduct did since to the arrays it passed.
C29_StoredEntitiesAreSnapshots ==
    /\ \A held \in heap.held : DeepValue(heap, held.address) = held.seen
    /\ SameEntities(products, heap.products)
    /\ SameEntities(orders, heap.orders)
    /\ SameEntities(settings, heap.settings)

\* a caller holds a product that updateProduct has just replaced by one with
\* other field values, and the array passed to createProduct was changed later
C29_Witness ==
    /\ call.op = "updateProduct"
    /\ \E held \in heap.held :
          /\ MapHas(heap.products, call.id)
          /\ held.seen.id = call.id
          /\ held.address # MapGet(heap.products, call.id)
          /\ held.seen.price # MapGet(products, call.id).price
    /\ \E i \in DOMAIN heap.lists : heap.objects[heap.lists[i]] # <<>>

Kinds == DOMAIN AsConstructed

MapsByKind ==
    [users |-> users, products |-> products, categories |-> categories,
     articles |-> articles, orders |-> orders, orderItems |-> orderItems,
     subscribers |-> subscribers, contacts |-> contacts, settings |-> settings]

CountersByKind ==
    [users |-> userId, products |-> productId, categories |-> categoryId,
     articles |-> articleId, orders |-> orderId, orderItems |-> orderItemId,
     subscribers |-> subscriberId, contacts |-> contactId, settings |-> settingId]

\* the kind each write of MemStorage is a write of
CreateKind ==
    [createUser |-> "users", createProduct |-> "products",
     createCategory |-> "categories", createArticle |-> "articles",
     createOrder |-> "orders", createOrderItem |-> "orderItems",
     createSubscriber |-> "subscribers", createContact |-> "contacts",
     createSetting |-> "settings"]

UpdateOrDeleteKind ==
    [updateProduct |-> "products", deleteProduct |-> "products",
     updateOrderStatus |-> "orders",
     updateSetting |-> "settings", deleteSetting |-> "settings"]

\* the entries of m under keys other than k, in their order
EntriesBut(m, k) == SelectSeq(m, LAMBDA e : e.key # k)

\* C30: every write of the in-memory backend touches only its target. A create
\* appends one entry under a new key to the map of its kind and raises that
\* kind's id counter by one; an update or delete on id i leaves every entry of
\* its kind's map under another key, and every counter, as it was; the maps
\* and counters of the other eight kinds are unchanged.
C30_WritesTouchOnlyTheirTarget ==
    [][ /\ \A op \in DOMAIN CreateKind : Called(op) =>
              LET k == CreateKind[op]
                  m == MapsByKind[k]
              IN  /\ \A other \in Kinds \ {k} :
                        /\ MapsByKind'[other] = MapsByKind[other]
                        /\ CountersByKind'[other] = CountersByKind[other]
                  /\ CountersByKind'[k] = CountersByKind[k] + 1
                  /\ Len(MapsByKind'[k]) = Len(m) + 1
                  /\ SubSeq(MapsByKind'[k], 1, Len(m)) = m
                  /\ ~MapHas(m, MapsByKind'[k][Len(m) + 1].key)
        /\ \A op \in DOMAIN UpdateOrDeleteKind : Called(op) =>
              LET k == UpdateOrDeleteKind[op]
              IN  /\ \A other \in Kinds \ {k} :
                        MapsByKind'[other] = MapsByKind[other]
                  /\ CountersByKind' = CountersByKind
                  /\ EntriesBut(MapsByKind'[k], call'.id)
                        = EntriesBut(MapsByKind[k], call'.id)
      ]_vars

\* deleteProduct has removed a stored product and other products are stored
C30_Witness ==
    /\ call.op = "deleteProduct"
    /\ ret = TRUE
    /\ ~MapHas(products, call.id)
    /\ Len(products) >= Len(InitialProducts) - 1
    /\ productId = Len(SeedProducts) + 1
====
